---- MODULE Spec2Model ----
(***************************************************************************)
(* Model of the video production backend (img_2_vid/backend): the job      *)
(* registry and background worker of main.py and the tools of tools.py     *)
(* (audio synthesis, clip generation with its poller, assembly, lip-sync   *)
(* with its poller).                                                       *)
(*                                                                         *)
(* Conventions.  Python None is the empty tuple.  An optional JSON field   *)
(* is None when absent and <<v>> when present with value v.  A status      *)
(* token is the tuple of its characters, so that str.upper() is computed   *)
(* character by character.  An exception message is <<text, argument>>.    *)
(* A file of the working directory is <<name, index>>.  crew.kickoff() is  *)
(* one call of the agent's single tool, whose exception propagates.        *)
(***************************************************************************)
EXTENDS Integers, Sequences, FiniteSets, TLC

VARIABLES jobs,      \* main.py: the registry dict, job id -> record
          pc,        \* position of each job's background worker
          args,      \* arguments of run_video_production, per job
          loc,       \* local variables of the worker and of the running tool
          io,        \* what each worker has asked of the outside world so far
          files,     \* the files present in TEMP_DIR and the upload area
          audio_out, \* outcome of the last generate_audio_tool call
          resp,      \* the latest HTTP reply of a route
          script_out, \* outcome of the last analyze_image_tool call
          conversations,    \* server_with_langsmith.py: id -> message list
          generated_images, \* server_with_langsmith.py: id -> file names
          uuids      \* how many times uuid.uuid4() has been drawn so far

\* the state of the chat server (server_with_langsmith.py)
chat_state == <<conversations, generated_images, uuids>>

vars == <<jobs, pc, args, loc, io, files, audio_out, resp, script_out,
          conversations, generated_images, uuids>>

None == <<>>

Some(v) == <<v>>

----------------------------------------------------------------------------
(* Bounds of the model *)

MaxClips == 3

MaxSegs == 3

MaxDeci == 300

(* Program constants *)

CLIP_DURATION == 7

max_attempts_clip == 120

max_attempts_lipsync == 10

JobIds == {"job-1", "job-2"}

----------------------------------------------------------------------------
(* Python helpers *)

\* truthiness of an optional string field: None and "" are falsy
Truthy(v) == v # None /\ v # Some("")

\* a or b
Or(a, b) == IF Truthy(a) THEN a ELSE b

\* d.get(key, default) for an optional field
Get(field, default) == IF field = None THEN default ELSE field[1]

\* seq[idx] with Python's negative indices; None stands for IndexError
PyIndex(seq, idx) ==
    IF idx >= 0
    THEN IF idx < Len(seq) THEN Some(seq[idx + 1]) ELSE None
    ELSE IF -idx <= Len(seq) THEN Some(seq[Len(seq) + idx + 1]) ELSE None

LowerChars == <<"a","b","c","d","e","f","g","h","i","j","k","l","m",
                "n","o","p","q","r","s","t","u","v","w","x","y","z">>

UpperChars == <<"A","B","C","D","E","F","G","H","I","J","K","L","M",
                "N","O","P","Q","R","S","T","U","V","W","X","Y","Z">>

UpperChar(c) ==
    IF \E k \in DOMAIN LowerChars : LowerChars[k] = c
    THEN UpperChars[CHOOSE k \in DOMAIN LowerChars : LowerChars[k] = c]
    ELSE c

\* str.upper()
Upper(s) == [k \in DOMAIN s |-> UpperChar(s[k])]

----------------------------------------------------------------------------
(* Status tokens *)

s_processing == <<"p","r","o","c","e","s","s","i","n","g">>

s_complete == <<"c","o","m","p","l","e","t","e">>

s_completed == <<"c","o","m","p","l","e","t","e","d">>

s_failed == <<"f","a","i","l","e","d">>

s_error == <<"e","r","r","o","r">>

s_rejected == <<"r","e","j","e","c","t","e","d">>

s_cancelled == <<"c","a","n","c","e","l","l","e","d">>

S_COMPLETED == <<"C","O","M","P","L","E","T","E","D">>

S_COMPLETE == <<"C","O","M","P","L","E","T","E">>

S_FAILED == <<"F","A","I","L","E","D">>

S_REJECTED == <<"R","E","J","E","C","T","E","D">>

S_CANCELLED == <<"C","A","N","C","E","L","L","E","D">>

S_ERROR == <<"E","R","R","O","R">>

S_PROCESSING == <<"P","R","O","C","E","S","S","I","N","G">>

s_Failed == <<"F","a","i","l","e","d">>

s_Completed == <<"C","o","m","p","l","e","t","e","d">>

----------------------------------------------------------------------------
(* Files *)

File(name) == <<name, 0>>

AudioFile == File("full_audio.mp3")

\* TEMP_DIR / f"clip_{clip_index:02d}_raw.mp4"
RawClipFile(k) == <<"clip_%02d_raw.mp4", k>>

\* TEMP_DIR / f"clip_{clip_index:02d}.mp4"
ClipFile(k) == <<"clip_%02d.mp4", k>>

Exists(path) == path \in files

----------------------------------------------------------------------------
(* Exception messages and progress texts *)

Msg(text, arg) == <<text, arg>>

\* f"Video generation timeout for clip {clip_index}"
ClipTimeoutMsg(clip_index) == Msg("Video generation timeout for clip ", clip_index)

\* f"Video generation failed: {error_msg}"
ClipFailedMsg(error_msg) == Msg("Video generation failed: ", error_msg)

LipsyncTimeoutMsg == Msg("Lipsync timeout - job did not complete in time", None)

IndexErrorMsg == Msg("list index out of range", None)

\* str(KeyError("duration"))
KeyErrorMsg(key) == Msg("KeyError", key)

----------------------------------------------------------------------------
(* Caller-supplied inputs of start_production *)

\* a script of n segments; the prompt of a segment tells its position
SegList(n) ==
    [k \in 1..n |->
        [type |-> IF k = 1 THEN "intro" ELSE IF k = n THEN "outro" ELSE "body",
         prompt |-> k]]

ScriptInputs == {[segments |-> SegList(n)] : n \in 0..MaxSegs}

FullScript == [segments |-> SegList(MaxSegs)]

\* audio_data as the audio tool returns it (durations are in tenths of a
\* second), with any clip count; audio_data naming a file that is not on
\* disk; audio_data without its "duration" key
AudioInputs ==
    [audio_path : {AudioFile}, duration : {Some(224)},
     required_clips : 0..MaxClips]
    \cup [audio_path : {File("missing.mp3")}, duration : {Some(224)},
          required_clips : 0..1]
    \cup [audio_path : {AudioFile}, duration : {None},
          required_clips : 0..1]

\* the <<script_data, audio_data>> pairs submitted: every audio_data with
\* the full script, every script with the largest clip count
ProductionInputs ==
    {<<FullScript, a>> : a \in AudioInputs}
    \cup {<<s, [audio_path |-> AudioFile, duration |-> Some(224),
               required_clips |-> MaxClips]>> : s \in ScriptInputs}

ImagePaths == {File("upload_person.jpg")}

----------------------------------------------------------------------------
(* Initial state *)

\* server_with_langsmith.py lines 49-50; no uuid drawn yet
ChatInit ==
    /\ conversations = <<>>
    /\ generated_images = <<>>
    /\ uuids = 0

LocInit ==
    [i |-> 0, required_clips |-> 0, clip_paths |-> <<>>,
     clip_index |-> 0, prompt |-> 0,
     attempt |-> 0, video_url |-> None, synced_video_url |-> None,
     assembled_video |-> None, final_video |-> None, exc |-> None]

IoInit ==
    [submits |-> <<>>,   \* clip submissions: <<clip_index, prompt>>, in order
     tasks |-> <<>>,     \* outcome of each accepted clip task, "open" while polled
     queries |-> 0,      \* status queries issued for the task being polled
     sleeps |-> 0,       \* waits done for the task being polled
     last |-> None,      \* the response to the latest status query, until
                         \* the next wait begins or the result is fetched
     downloads |-> 0,    \* result downloads requested
     asm |-> <<>>,       \* clip-path lists handed to the assembly tool
     ffmpeg |-> 0,       \* ffmpeg runs of the assembly tool
     ls_submits |-> 0,   \* lip-sync submissions
     ls_reply |-> None,  \* the response to the lip-sync submission, until
                         \* the first wait begins
     ls_tasks |-> <<>>]  \* outcome of each accepted lip-sync task

Init ==
    /\ jobs = <<>>
    /\ pc = [j \in JobIds |-> "idle"]
    /\ args = [j \in JobIds |-> None]
    /\ loc = [j \in JobIds |-> LocInit]
    /\ io = [j \in JobIds |-> IoInit]
    /\ files = ImagePaths \cup {AudioFile}
    /\ audio_out = None
    /\ resp = None
    /\ script_out = None
    /\ ChatInit

----------------------------------------------------------------------------
(* main.py: start_production *)

\* a submission that runs line 190 itself before it returns
StartProduction_Inline(j, image_path, script_data, audio_data) ==
    /\ j \notin DOMAIN jobs
    /\ pc[j] = "idle"
    /\ jobs' = (j :> [job_id |-> j, status |-> "generating_videos",
                      progress |-> <<"Initializing...">>,
                      result |-> None, error |-> None]) @@ jobs
    /\ args' = [args EXCEPT ![j] = [image_path |-> image_path,
                                    script_data |-> script_data,
                                    audio_data |-> audio_data]]
    /\ pc' = [pc EXCEPT ![j] = "l191"]
    /\ resp' = [route |-> "start-production", job_id |-> j, code |-> 200,
                content |-> [job_id |-> j]]
    /\ UNCHANGED <<chat_state, loc, io, files, audio_out, script_out>>

\* lines 320-338; uuid4 gives an id that no earlier submission was given
StartProduction(j, image_path, script_data, audio_data) ==
    /\ j \notin DOMAIN jobs
    /\ pc[j] = "idle"
    /\ jobs' = (j :> [job_id |-> j, status |-> "started",
                      progress |-> <<"Initializing...">>,
                      result |-> None, error |-> None]) @@ jobs
    /\ args' = [args EXCEPT ![j] = [image_path |-> image_path,
                                    script_data |-> script_data,
                                    audio_data |-> audio_data]]
    /\ pc' = [pc EXCEPT ![j] = "l190"]
    /\ resp' = [route |-> "start-production", job_id |-> j, code |-> 200,
                content |-> [job_id |-> j]]
    /\ UNCHANGED <<chat_state, loc, io, files, audio_out, script_out>>

----------------------------------------------------------------------------
(* main.py: get_job_status *)

\* the ids a client may ask about: those of the jobs and one never issued
QueryIds == JobIds \cup {"job-0"}

\* a lookup that creates the record it does not find
GetJobStatus_CreatesRecord(job_id) ==
    LET known == IF job_id \in DOMAIN jobs THEN jobs
                 ELSE (job_id :> [job_id |-> job_id, status |-> "started",
                                  progress |-> <<"Initializing...">>,
                                  result |-> None, error |-> None]) @@ jobs
    IN /\ jobs' = known
       /\ resp' = [route |-> "job-status", job_id |-> job_id, code |-> 200,
                   content |-> known[job_id]]
       /\ UNCHANGED <<chat_state, pc, args, loc, io, files, audio_out, script_out>>

\* lines 341-347
GetJobStatus(job_id) ==
    /\ resp' = IF job_id \notin DOMAIN jobs
               THEN [route |-> "job-status", job_id |-> job_id, code |-> 404,
                     content |-> [detail |-> "Job not found"]]
               ELSE [route |-> "job-status", job_id |-> job_id, code |-> 200,
                     content |-> jobs[job_id]]
    /\ UNCHANGED <<chat_state, jobs, pc, args, loc, io, files, audio_out, script_out>>

----------------------------------------------------------------------------
(* main.py: run_video_production, the clip loop *)

\* the frame of a tool call is gone once the call has returned or raised
PopFrame(l) ==
    [l EXCEPT !.clip_index = 0, !.prompt = 0, !.attempt = 0,
              !.video_url = None, !.synced_video_url = None]

\* the task handle is discarded when polling is over
EndPoll(o) == [o EXCEPT !.queries = 0, !.sleeps = 0, !.last = None]

\* an exception that is recorded while the worker goes on with the next clip
Raise_GoesOn(j, msg) ==
    /\ pc' = [pc EXCEPT ![j] = "l236"]
    /\ loc' = [loc EXCEPT ![j] = [PopFrame(@) EXCEPT !.exc = msg]]

\* an exception raised at the worker's current position: control goes to
\* the except clause of line 304
Raise(j, msg) ==
    /\ pc' = [pc EXCEPT ![j] = "l306"]
    /\ loc' = [loc EXCEPT ![j] = [PopFrame(@) EXCEPT !.exc = msg]]

L190(j) ==
    /\ pc[j] = "l190"
    /\ jobs' = [jobs EXCEPT ![j].status = "generating_videos"]
    /\ pc' = [pc EXCEPT ![j] = "l191"]
    /\ UNCHANGED <<chat_state, args, loc, io, files, audio_out, script_out, resp>>

L191(j) ==
    /\ pc[j] = "l191"
    /\ jobs' = [jobs EXCEPT ![j].progress = <<"Generating video clips...">>]
    /\ loc' = [loc EXCEPT ![j].required_clips = args[j].audio_data.required_clips,
                          ![j].clip_paths = <<>>,
                          ![j].i = 0]
    /\ pc' = [pc EXCEPT ![j] = "l203"]
    /\ UNCHANGED <<chat_state, args, io, files, audio_out, script_out, resp>>

\* a choice that never takes the last segment
SelectSegment_NoOutro(segments, i, required_clips) ==
    IF i = 0 THEN PyIndex(segments, 0) ELSE PyIndex(segments, 1)

\* the last-clip test made before the first-clip test
SelectSegment_OutroFirst(segments, i, required_clips) ==
    IF i = required_clips - 1 THEN PyIndex(segments, -1)
    ELSE IF i = 0 THEN PyIndex(segments, 0)
    ELSE PyIndex(segments, 1)

\* lines 205-210: the segment of loop index i
SelectSegment(segments, i, required_clips) ==
    IF i = 0 THEN PyIndex(segments, 0)
    ELSE IF i = required_clips - 1 THEN PyIndex(segments, -1)
    ELSE PyIndex(segments, 1)

\* a loop that stops one clip short
L203_OneShort(j) ==
    /\ pc[j] = "l203"
    /\ IF loc[j].i < loc[j].required_clips - 1
       THEN LET seg == SelectSegment(args[j].script_data.segments,
                                     loc[j].i, loc[j].required_clips)
            IN IF seg = None
               THEN Raise(j, IndexErrorMsg)
               ELSE /\ loc' = [loc EXCEPT ![j].clip_index = loc[j].i + 1,
                                          ![j].prompt = seg[1].prompt]
                    /\ pc' = [pc EXCEPT ![j] = "clip_submit"]
       ELSE /\ pc' = [pc EXCEPT ![j] = "l241"]
            /\ loc' = loc
    /\ UNCHANGED <<chat_state, jobs, args, io, files, audio_out, script_out, resp>>

\* lines 203-232: loop test, segment choice, kickoff of the clip tool
L203(j) ==
    /\ pc[j] = "l203"
    /\ IF loc[j].i < loc[j].required_clips
       THEN LET seg == SelectSegment(args[j].script_data.segments,
                                     loc[j].i, loc[j].required_clips)
            IN IF seg = None
               THEN Raise(j, IndexErrorMsg)
               ELSE /\ loc' = [loc EXCEPT ![j].clip_index = loc[j].i + 1,
                                          ![j].prompt = seg[1].prompt]
                    /\ pc' = [pc EXCEPT ![j] = "clip_submit"]
       ELSE /\ pc' = [pc EXCEPT ![j] = "l241"]
            /\ loc' = loc
    /\ UNCHANGED <<chat_state, jobs, args, io, files, audio_out, script_out, resp>>

\* a progress text written to every record of the registry
L236_AllJobs(j) ==
    /\ pc[j] = "l236"
    /\ jobs' = [b \in DOMAIN jobs |->
                  [jobs[b] EXCEPT !.progress =
                      <<"Generated clip ", loc[j].i + 1, "/",
                        loc[j].required_clips>>]]
    /\ loc' = [loc EXCEPT ![j].i = loc[j].i + 1]
    /\ pc' = [pc EXCEPT ![j] = "l203"]
    /\ UNCHANGED <<chat_state, args, io, files, audio_out, script_out, resp>>

L236(j) ==
    /\ pc[j] = "l236"
    /\ jobs' = [jobs EXCEPT ![j].progress =
                   <<"Generated clip ", loc[j].i + 1, "/", loc[j].required_clips>>]
    /\ loc' = [loc EXCEPT ![j].i = loc[j].i + 1]
    /\ pc' = [pc EXCEPT ![j] = "l203"]
    /\ UNCHANGED <<chat_state, args, io, files, audio_out, script_out, resp>>

----------------------------------------------------------------------------
(* tools.py: generate_video_clip_tool *)

\* what one status query can come back with: a transport error, or an HTTP
\* response with a status code and the fields of its JSON body.  Result
\* references vary under the success tokens and the upper-case ones, error
\* texts under the failure tokens and the upper-case ones.
ClipPollResponses ==
    [kind : {"transport"}, code : {0}, status : {None},
     video_url : {None}, output_url : {None}, error : {None}]
    \cup
    [kind : {"http"}, code : {500}, status : {None},
     video_url : {None}, output_url : {None}, error : {None}]
    \cup
    [kind : {"http"}, code : {200}, status : {None, s_processing},
     video_url : {None}, output_url : {None}, error : {None}]
    \cup
    [kind : {"http"}, code : {200}, status : {s_complete, s_completed},
     video_url : {None, Some(""), Some("video-url")},
     output_url : {None, Some(""), Some("output-url")},
     error : {None}]
    \cup
    [kind : {"http"}, code : {200}, status : {s_failed, s_error},
     video_url : {None}, output_url : {None},
     error : {None, Some("quota exceeded")}]
    \cup
    [kind : {"http"}, code : {200}, status : {S_COMPLETED, S_FAILED, S_ERROR},
     video_url : {Some("video-url")}, output_url : {None},
     error : {Some("quota exceeded")}]

\* a bound that lets the loop run once more than max_attempts
MoreAttempts_OffByOne(attempt, max_attempts) == attempt <= max_attempts

\* for attempt in range(max_attempts): is there another iteration
MoreAttempts(attempt, max_attempts) == attempt < max_attempts

ClipSubmitOutcomes == {"unreadable", "transport", "non200", "ok"}

DownloadOutcomes == {"ok", "non200", "transport"}

FfmpegOutcomes == {"ok", "error"}

\* lines 191-206: read the image, submit the generation task
ClipSubmit(j) ==
    /\ pc[j] = "clip_submit"
    /\ \E o \in ClipSubmitOutcomes :
         LET sent == Append(io[j].submits, <<loc[j].clip_index, loc[j].prompt>>)
         IN CASE o = "unreadable" ->
                   /\ Raise(j, Msg("No such file or directory: ", args[j].image_path))
                   /\ io' = io
              [] o = "transport" ->
                   /\ Raise(j, Msg("ConnectionError", None))
                   /\ io' = [io EXCEPT ![j].submits = sent]
              [] o = "non200" ->
                   /\ Raise(j, Msg("Video generation submission failed: ", "body"))
                   /\ io' = [io EXCEPT ![j].submits = sent]
              [] o = "ok" ->
                   /\ io' = [io EXCEPT ![j].submits = sent,
                                       ![j].tasks = Append(@, "open"),
                                       ![j].queries = 0,
                                       ![j].sleeps = 0]
                   /\ loc' = [loc EXCEPT ![j].video_url = None,
                                         ![j].attempt = 0]
                   /\ pc' = [pc EXCEPT ![j] =
                               IF MoreAttempts(0, max_attempts_clip)
                               THEN "clip_sleep" ELSE "l239"]
    /\ UNCHANGED <<chat_state, jobs, args, files, audio_out, script_out, resp>>

\* a loop iteration that does not wait
ClipSleep_NoWait(j) ==
    /\ pc[j] = "clip_sleep"
    /\ io' = [io EXCEPT ![j].last = None]
    /\ pc' = [pc EXCEPT ![j] = "clip_query"]
    /\ UNCHANGED <<chat_state, jobs, args, loc, files, audio_out, script_out, resp>>

\* line 209: time.sleep(10)
ClipSleep(j) ==
    /\ pc[j] = "clip_sleep"
    /\ io' = [io EXCEPT ![j].sleeps = @ + 1, ![j].last = None]
    /\ pc' = [pc EXCEPT ![j] = "clip_query"]
    /\ UNCHANGED <<chat_state, jobs, args, loc, files, audio_out, script_out, resp>>

\* status tokens compared after upper()
ClipPollStep_CaseInsensitive(r, video_url) ==
    IF r.kind = "transport" \/ r.code # 200
    THEN [do |-> "continue", video_url |-> video_url, msg |-> None]
    ELSE IF Upper(r.status) \in {S_COMPLETE, S_COMPLETED}
    THEN LET url == Or(r.video_url, r.output_url)
         IN [do |-> IF Truthy(url) THEN "break" ELSE "continue",
             video_url |-> url, msg |-> None]
    ELSE IF Upper(r.status) \in {S_FAILED, S_ERROR}
    THEN [do |-> "raise", video_url |-> video_url,
          msg |-> ClipFailedMsg(Get(r.error, "Unknown error"))]
    ELSE [do |-> "continue", video_url |-> video_url, msg |-> None]

\* a success status that ends the loop whether or not it has a reference
ClipPollStep_BreakOnStatus(r, video_url) ==
    IF r.kind = "transport" \/ r.code # 200
    THEN [do |-> "continue", video_url |-> video_url, msg |-> None]
    ELSE IF r.status = s_complete \/ r.status = s_completed
    THEN [do |-> "break", video_url |-> Or(r.video_url, r.output_url),
          msg |-> None]
    ELSE IF r.status \in {s_failed, s_error}
    THEN [do |-> "raise", video_url |-> video_url,
          msg |-> ClipFailedMsg(Get(r.error, "Unknown error"))]
    ELSE [do |-> "continue", video_url |-> video_url, msg |-> None]

\* a failed status query that ends the task
ClipPollStep_FatalTransport(r, video_url) ==
    IF r.kind = "transport" \/ r.code # 200
    THEN [do |-> "raise", video_url |-> video_url,
          msg |-> Msg("ConnectionError", None)]
    ELSE IF r.status = s_complete \/ r.status = s_completed
    THEN LET url == Or(r.video_url, r.output_url)
         IN [do |-> IF Truthy(url) THEN "break" ELSE "continue",
             video_url |-> url, msg |-> None]
    ELSE IF r.status \in {s_failed, s_error}
    THEN [do |-> "raise", video_url |-> video_url,
          msg |-> ClipFailedMsg(Get(r.error, "Unknown error"))]
    ELSE [do |-> "continue", video_url |-> video_url, msg |-> None]

\* output_url tried before video_url
ClipPollStep_OutputFirst(r, video_url) ==
    IF r.kind = "transport" \/ r.code # 200
    THEN [do |-> "continue", video_url |-> video_url, msg |-> None]
    ELSE IF r.status = s_complete \/ r.status = s_completed
    THEN LET url == Or(r.output_url, r.video_url)
         IN [do |-> IF Truthy(url) THEN "break" ELSE "continue",
             video_url |-> url, msg |-> None]
    ELSE IF r.status \in {s_failed, s_error}
    THEN [do |-> "raise", video_url |-> video_url,
          msg |-> ClipFailedMsg(Get(r.error, "Unknown error"))]
    ELSE [do |-> "continue", video_url |-> video_url, msg |-> None]

\* lines 211-237: what the loop body does with one response r, given the
\* current value of video_url: go on, leave the loop, or raise
ClipPollStep(r, video_url) ==
    IF r.kind = "transport" \/ r.code # 200
    THEN [do |-> "continue", video_url |-> video_url, msg |-> None]
    ELSE IF r.status = s_complete \/ r.status = s_completed
    THEN LET url == Or(r.video_url, r.output_url)
         IN [do |-> IF Truthy(url) THEN "break" ELSE "continue",
             video_url |-> url, msg |-> None]
    ELSE IF r.status \in {s_failed, s_error}
    THEN [do |-> "raise", video_url |-> video_url,
          msg |-> ClipFailedMsg(Get(r.error, "Unknown error"))]
    ELSE [do |-> "continue", video_url |-> video_url, msg |-> None]

SetLast(seq, v) == [seq EXCEPT ![Len(seq)] = v]

\* lines 208-237: one status query and the handling of its response
ClipQuery(j) ==
    /\ pc[j] = "clip_query"
    /\ \E r \in ClipPollResponses :
         LET step == ClipPollStep(r, loc[j].video_url)
             attempt == loc[j].attempt + 1
         IN CASE step.do = "raise" ->
                   /\ Raise(j, step.msg)
                   /\ io' = [io EXCEPT ![j] =
                               [EndPoll(@) EXCEPT !.tasks = SetLast(@, "failed"),
                                                  !.last = Some(r)]]
              [] step.do = "break" ->
                   /\ pc' = [pc EXCEPT ![j] = "l239"]
                   /\ loc' = [loc EXCEPT ![j].video_url = step.video_url,
                                         ![j].attempt = attempt]
                   /\ io' = [io EXCEPT ![j].queries = @ + 1,
                                       ![j].last = Some(r),
                                       ![j].tasks = SetLast(@, "success")]
              [] step.do = "continue" ->
                   /\ pc' = [pc EXCEPT ![j] =
                               IF MoreAttempts(attempt, max_attempts_clip)
                               THEN "clip_sleep" ELSE "l239"]
                   /\ loc' = [loc EXCEPT ![j].video_url = step.video_url,
                                         ![j].attempt = attempt]
                   /\ io' = [io EXCEPT ![j].queries = @ + 1,
                                       ![j].last = Some(r)]
    /\ UNCHANGED <<chat_state, jobs, args, files, audio_out, script_out, resp>>

\* a download that is asked for again after a non-success response
L239_Retries(j) ==
    /\ pc[j] = "l239"
    /\ IF ~Truthy(loc[j].video_url)
       THEN /\ Raise(j, ClipTimeoutMsg(loc[j].clip_index))
            /\ io' = [io EXCEPT ![j] =
                        EndPoll([@ EXCEPT !.tasks = SetLast(@, "timeout")])]
            /\ files' = files
       ELSE \E o \in DownloadOutcomes :
              CASE o = "ok" ->
                     /\ files' = files \cup {RawClipFile(loc[j].clip_index)}
                     /\ pc' = [pc EXCEPT ![j] = "clip_trim"]
                     /\ loc' = [loc EXCEPT ![j].attempt = 0]
                     /\ io' = [io EXCEPT ![j] =
                                 EndPoll([@ EXCEPT !.downloads = @ + 1])]
                [] o = "non200" ->
                     /\ io[j].downloads < MaxClips + 2
                     /\ UNCHANGED <<pc, loc, files>>
                     /\ io' = [io EXCEPT ![j] =
                                 EndPoll([@ EXCEPT !.downloads = @ + 1])]
                [] o = "transport" ->
                     /\ Raise(j, Msg("ConnectionError", None))
                     /\ files' = files
                     /\ io' = [io EXCEPT ![j] =
                                 EndPoll([@ EXCEPT !.downloads = @ + 1])]
    /\ UNCHANGED <<chat_state, jobs, args, audio_out, script_out, resp>>

\* lines 239-251: the timeout test after the loop, then the download
L239(j) ==
    /\ pc[j] = "l239"
    /\ IF ~Truthy(loc[j].video_url)
       THEN /\ Raise(j, ClipTimeoutMsg(loc[j].clip_index))
            /\ io' = [io EXCEPT ![j] =
                        EndPoll([@ EXCEPT !.tasks = SetLast(@, "timeout")])]
            /\ files' = files
       ELSE \E o \in DownloadOutcomes :
              CASE o = "ok" ->
                     /\ files' = files \cup {RawClipFile(loc[j].clip_index)}
                     /\ pc' = [pc EXCEPT ![j] = "clip_trim"]
                     /\ loc' = [loc EXCEPT ![j].attempt = 0]  \* dead after the loop
                     /\ io' = [io EXCEPT ![j] =
                                 EndPoll([@ EXCEPT !.downloads = @ + 1])]
                [] o = "non200" ->
                     /\ Raise(j, Msg("Failed to download video: ", "404"))
                     /\ files' = files
                     /\ io' = [io EXCEPT ![j] =
                                 EndPoll([@ EXCEPT !.downloads = @ + 1])]
                [] o = "transport" ->
                     /\ Raise(j, Msg("ConnectionError", None))
                     /\ files' = files
                     /\ io' = [io EXCEPT ![j] =
                                 EndPoll([@ EXCEPT !.downloads = @ + 1])]
    /\ UNCHANGED <<chat_state, jobs, args, audio_out, script_out, resp>>

\* the returned path put at the front of clip_paths
ClipTrim_Prepend(j) ==
    /\ pc[j] = "clip_trim"
    /\ \E o \in FfmpegOutcomes :
         CASE o = "ok" ->
                /\ files' = files \cup {ClipFile(loc[j].clip_index)}
                /\ loc' = [loc EXCEPT ![j] =
                              [PopFrame(@) EXCEPT !.clip_paths =
                                  <<ClipFile(loc[j].clip_index)>> \o @]]
                /\ pc' = [pc EXCEPT ![j] = "l236"]
           [] o = "error" ->
                /\ Raise(j, Msg("FFmpeg error while trimming: ", "stderr"))
                /\ files' = files
    /\ UNCHANGED <<chat_state, jobs, args, io, audio_out, script_out, resp>>

\* lines 256-277 and main.py 233-234: trim the clip, return its path, which
\* the worker appends to clip_paths
ClipTrim(j) ==
    /\ pc[j] = "clip_trim"
    /\ \E o \in FfmpegOutcomes :
         CASE o = "ok" ->
                /\ files' = files \cup {ClipFile(loc[j].clip_index)}
                /\ loc' = [loc EXCEPT ![j] =
                              [PopFrame(@) EXCEPT !.clip_paths =
                                  Append(@, ClipFile(loc[j].clip_index))]]
                /\ pc' = [pc EXCEPT ![j] = "l236"]
           [] o = "error" ->
                /\ Raise(j, Msg("FFmpeg error while trimming: ", "stderr"))
                /\ files' = files
    /\ UNCHANGED <<chat_state, jobs, args, io, audio_out, script_out, resp>>

----------------------------------------------------------------------------
(* main.py lines 239-264 and tools.py: assemble_video_tool *)

ConcatFile == File("concat_list.txt")

CombinedFile == File("combined_video.mp4")

RawWithAudioFile == File("raw_video_with_audio.mp4")

FinalFile == File("final_synced_movie.mp4")

L241(j) ==
    /\ pc[j] = "l241"
    /\ jobs' = [jobs EXCEPT ![j].status = "assembling"]
    /\ pc' = [pc EXCEPT ![j] = "l242"]
    /\ UNCHANGED <<chat_state, args, loc, io, files, audio_out, script_out, resp>>

L242(j) ==
    /\ pc[j] = "l242"
    /\ jobs' = [jobs EXCEPT ![j].progress = <<"Assembling video with audio...">>]
    /\ pc' = [pc EXCEPT ![j] = "asm_check"]
    /\ UNCHANGED <<chat_state, args, loc, io, files, audio_out, script_out, resp>>

\* a check that looks at the first path only
FirstMissing_HeadOnly(clip_paths) ==
    IF clip_paths = <<>> \/ Exists(clip_paths[1]) THEN None
    ELSE Some(clip_paths[1])

\* the first path of the list that is not on disk, None when all are
FirstMissing(clip_paths) ==
    IF \A k \in DOMAIN clip_paths : Exists(clip_paths[k])
    THEN None
    ELSE LET k == CHOOSE m \in DOMAIN clip_paths :
                    /\ ~Exists(clip_paths[m])
                    /\ \A n \in 1..(m - 1) : Exists(clip_paths[n])
         IN Some(clip_paths[k])

\* tools.py lines 287-299: open the concat list, check every clip path
AsmCheck(j) ==
    /\ pc[j] = "asm_check"
    /\ io' = [io EXCEPT ![j].asm = Append(@, loc[j].clip_paths)]
    /\ files' = files \cup {ConcatFile}
    /\ LET missing == FirstMissing(loc[j].clip_paths)
       IN IF missing # None
          THEN Raise(j, Msg("Clip not found: ", missing[1]))
          ELSE /\ pc' = [pc EXCEPT ![j] = "asm_concat"]
               /\ loc' = loc
    /\ UNCHANGED <<chat_state, jobs, args, audio_out, script_out, resp>>

\* tools.py lines 301-324: ffmpeg concatenation, then the audio check
AsmConcat(j) ==
    /\ pc[j] = "asm_concat"
    /\ io' = [io EXCEPT ![j].ffmpeg = @ + 1]
    /\ \E o \in FfmpegOutcomes :
         CASE o = "error" ->
                /\ Raise(j, Msg("FFmpeg error during concatenation: ", "stderr"))
                /\ files' = files
           [] o = "ok" ->
                /\ files' = files \cup {CombinedFile}
                /\ IF ~Exists(args[j].audio_data.audio_path)
                   THEN Raise(j, Msg("Audio file not found: ",
                                     args[j].audio_data.audio_path))
                   ELSE /\ pc' = [pc EXCEPT ![j] = "asm_mux"]
                        /\ loc' = loc
    /\ UNCHANGED <<chat_state, jobs, args, audio_out, script_out, resp>>

\* tools.py lines 326-349 and main.py line 263: ffmpeg mux, path returned
AsmMux(j) ==
    /\ pc[j] = "asm_mux"
    /\ io' = [io EXCEPT ![j].ffmpeg = @ + 1]
    /\ \E o \in FfmpegOutcomes :
         CASE o = "error" ->
                /\ Raise(j, Msg("FFmpeg error during audio merge: ", "stderr"))
                /\ files' = files
           [] o = "ok" ->
                /\ files' = files \cup {RawWithAudioFile}
                /\ loc' = [loc EXCEPT ![j].assembled_video = Some(RawWithAudioFile)]
                /\ pc' = [pc EXCEPT ![j] = "l268"]
    /\ UNCHANGED <<chat_state, jobs, args, audio_out, script_out, resp>>

----------------------------------------------------------------------------
(* main.py lines 266-290 and tools.py: apply_lip_sync_tool *)

\* the status of the clip stage written again at the start of lip-sync
L268_Regress(j) ==
    /\ pc[j] = "l268"
    /\ jobs' = [jobs EXCEPT ![j].status = "generating_videos"]
    /\ pc' = [pc EXCEPT ![j] = "l269"]
    /\ UNCHANGED <<chat_state, args, loc, io, files, audio_out, script_out, resp>>

L268(j) ==
    /\ pc[j] = "l268"
    /\ jobs' = [jobs EXCEPT ![j].status = "lipsyncing"]
    /\ pc' = [pc EXCEPT ![j] = "l269"]
    /\ UNCHANGED <<chat_state, args, loc, io, files, audio_out, script_out, resp>>

L269(j) ==
    /\ pc[j] = "l269"
    /\ jobs' = [jobs EXCEPT ![j].progress = <<"Applying lip synchronization...">>]
    /\ pc' = [pc EXCEPT ![j] = "ls_check"]
    /\ UNCHANGED <<chat_state, args, loc, io, files, audio_out, script_out, resp>>

\* only the assembled video looked for
LsCheck_VideoOnly(j) ==
    /\ pc[j] = "ls_check"
    /\ IF ~Exists(loc[j].assembled_video[1])
       THEN Raise(j, Msg("Video file not found: ", loc[j].assembled_video[1]))
       ELSE /\ pc' = [pc EXCEPT ![j] = "ls_submit"]
            /\ loc' = loc
    /\ UNCHANGED <<chat_state, jobs, args, io, files, audio_out, script_out, resp>>

\* tools.py lines 359-367: both inputs must be on disk
LsCheck(j) ==
    /\ pc[j] = "ls_check"
    /\ IF ~Exists(loc[j].assembled_video[1])
       THEN Raise(j, Msg("Video file not found: ", loc[j].assembled_video[1]))
       ELSE IF ~Exists(args[j].audio_data.audio_path)
       THEN Raise(j, Msg("Audio file not found: ", args[j].audio_data.audio_path))
       ELSE /\ pc' = [pc EXCEPT ![j] = "ls_submit"]
            /\ loc' = loc
    /\ UNCHANGED <<chat_state, jobs, args, io, files, audio_out, script_out, resp>>

\* what the submission can come back with: a transport error, or an HTTP
\* response with a status code and the "id" field of its JSON body
LsSubmitResponses ==
    [kind : {"transport"}, code : {0}, id : {None}]
    \cup [kind : {"http"}, code : {200, 201, 202, 500},
          id : {None, Some(""), Some("sync-1")}]

\* a submission accepted on any 2xx code
LsSubmitStep_Any2xx(r) ==
    IF r.kind = "transport"
    THEN [do |-> "raise",
          msg |-> Msg("Failed to submit lipsync job: ", "ConnectionError")]
    ELSE IF r.code \notin {200, 201, 202}
    THEN [do |-> "raise", msg |-> Msg("Lipsync submission failed: ", r.code)]
    ELSE IF ~Truthy(r.id)
    THEN [do |-> "raise", msg |-> Msg("No job ID returned: ", r.id)]
    ELSE [do |-> "poll", msg |-> None]

\* lines 390-410: what the tool does with the submission's response r
LsSubmitStep(r) ==
    IF r.kind = "transport"
    THEN [do |-> "raise",
          msg |-> Msg("Failed to submit lipsync job: ", "ConnectionError")]
    ELSE IF r.code \notin {200, 201}
    THEN [do |-> "raise", msg |-> Msg("Lipsync submission failed: ", r.code)]
    ELSE IF ~Truthy(r.id)
    THEN [do |-> "raise", msg |-> Msg("No job ID returned: ", r.id)]
    ELSE [do |-> "poll", msg |-> None]

\* tools.py lines 389-416: submit the lip-sync job
LsSubmit(j) ==
    /\ pc[j] = "ls_submit"
    /\ \E r \in LsSubmitResponses :
         LET step == LsSubmitStep(r)
         IN IF step.do = "raise"
            THEN /\ Raise(j, step.msg)
                 /\ io' = [io EXCEPT ![j].ls_submits = @ + 1,
                                     ![j].ls_reply = Some(r)]
            ELSE /\ io' = [io EXCEPT ![j].ls_submits = @ + 1,
                                     ![j].ls_reply = Some(r),
                                     ![j].ls_tasks = Append(@, "open"),
                                     ![j].queries = 0,
                                     ![j].sleeps = 0]
                 /\ loc' = [loc EXCEPT ![j].synced_video_url = None,
                                       ![j].attempt = 0]
                 /\ pc' = [pc EXCEPT ![j] =
                             IF MoreAttempts(0, max_attempts_lipsync)
                             THEN "ls_sleep" ELSE "l450"]
    /\ UNCHANGED <<chat_state, jobs, args, files, audio_out, script_out, resp>>

\* line 418: time.sleep(10)
LsSleep(j) ==
    /\ pc[j] = "ls_sleep"
    /\ io' = [io EXCEPT ![j].sleeps = @ + 1, ![j].last = None,
                        ![j].ls_reply = None]
    /\ pc' = [pc EXCEPT ![j] = "ls_query"]
    /\ UNCHANGED <<chat_state, jobs, args, loc, files, audio_out, script_out, resp>>

LipsyncPollResponses ==
    [kind : {"transport"}, code : {0}, status : {None},
     output_url : {None}, outputUrl : {None}, video_url : {None}, error : {None}]
    \cup
    [kind : {"http"}, code : {500}, status : {None},
     output_url : {None}, outputUrl : {None}, video_url : {None}, error : {None}]
    \cup
    [kind : {"http"}, code : {200}, status : {None, s_processing, S_PROCESSING},
     output_url : {None}, outputUrl : {None}, video_url : {None}, error : {None}]
    \cup
    [kind : {"http"}, code : {200},
     status : {s_complete, S_COMPLETE, s_completed, S_COMPLETED, s_Completed},
     output_url : {None, Some(""), Some("output-url")},
     outputUrl : {None, Some(""), Some("outputUrl-url")},
     video_url : {None, Some(""), Some("video-url")},
     error : {None}]
    \cup
    [kind : {"http"}, code : {200},
     status : {s_failed, S_FAILED, s_Failed, s_rejected, S_REJECTED,
               s_cancelled, S_CANCELLED, s_error, S_ERROR},
     output_url : {None}, outputUrl : {None}, video_url : {None},
     error : {None, Some("face not detected")}]

terminal_statuses ==
    {S_COMPLETED, S_COMPLETE, S_FAILED, S_REJECTED, S_CANCELLED, S_ERROR}

\* result.get("error", f"Lipsync failed with status: {status}")
LipsyncFailedMsg(error, status) ==
    IF error = None THEN Msg("Lipsync failed with status: ", status)
    ELSE Msg(error[1], None)

\* video_url tried first
LipsyncPollStep_VideoUrlFirst(r, synced_video_url) ==
    IF r.kind = "transport" \/ r.code # 200
    THEN [do |-> "continue", url |-> synced_video_url, msg |-> None]
    ELSE LET status == Upper(r.status)
         IN IF status \in terminal_statuses
            THEN IF status \in {S_COMPLETED, S_COMPLETE}
                 THEN LET url == Or(Or(r.video_url, r.output_url), r.outputUrl)
                      IN [do |-> IF Truthy(url) THEN "break" ELSE "continue",
                          url |-> url, msg |-> None]
                 ELSE [do |-> "raise", url |-> synced_video_url,
                       msg |-> LipsyncFailedMsg(r.error, status)]
            ELSE [do |-> "continue", url |-> synced_video_url, msg |-> None]

\* the status compared as sent, without upper()
LipsyncPollStep_CaseSensitive(r, synced_video_url) ==
    IF r.kind = "transport" \/ r.code # 200
    THEN [do |-> "continue", url |-> synced_video_url, msg |-> None]
    ELSE LET status == r.status
         IN IF status \in terminal_statuses
            THEN IF status \in {S_COMPLETED, S_COMPLETE}
                 THEN LET url == Or(Or(r.output_url, r.outputUrl), r.video_url)
                      IN [do |-> IF Truthy(url) THEN "break" ELSE "continue",
                          url |-> url, msg |-> None]
                 ELSE [do |-> "raise", url |-> synced_video_url,
                       msg |-> LipsyncFailedMsg(r.error, status)]
            ELSE [do |-> "continue", url |-> synced_video_url, msg |-> None]

\* lines 420-448: what the loop body does with one response r
LipsyncPollStep(r, synced_video_url) ==
    IF r.kind = "transport" \/ r.code # 200
    THEN [do |-> "continue", url |-> synced_video_url, msg |-> None]
    ELSE LET status == Upper(r.status)
         IN IF status \in terminal_statuses
            THEN IF status \in {S_COMPLETED, S_COMPLETE}
                 THEN LET url == Or(Or(r.output_url, r.outputUrl), r.video_url)
                      IN [do |-> IF Truthy(url) THEN "break" ELSE "continue",
                          url |-> url, msg |-> None]
                 ELSE [do |-> "raise", url |-> synced_video_url,
                       msg |-> LipsyncFailedMsg(r.error, status)]
            ELSE [do |-> "continue", url |-> synced_video_url, msg |-> None]

\* lines 417-448: one status query and the handling of its response
LsQuery(j) ==
    /\ pc[j] = "ls_query"
    /\ \E r \in LipsyncPollResponses :
         LET step == LipsyncPollStep(r, loc[j].synced_video_url)
             attempt == loc[j].attempt + 1
         IN CASE step.do = "raise" ->
                   /\ Raise(j, step.msg)
                   /\ io' = [io EXCEPT ![j] =
                               [EndPoll(@) EXCEPT !.ls_tasks = SetLast(@, "failed"),
                                                  !.last = Some(r)]]
              [] step.do = "break" ->
                   /\ pc' = [pc EXCEPT ![j] = "l450"]
                   /\ loc' = [loc EXCEPT ![j].synced_video_url = step.url,
                                         ![j].attempt = attempt]
                   /\ io' = [io EXCEPT ![j].queries = @ + 1,
                                       ![j].last = Some(r),
                                       ![j].ls_tasks = SetLast(@, "success")]
              [] step.do = "continue" ->
                   /\ pc' = [pc EXCEPT ![j] =
                               IF MoreAttempts(attempt, max_attempts_lipsync)
                               THEN "ls_sleep" ELSE "l450"]
                   /\ loc' = [loc EXCEPT ![j].synced_video_url = step.url,
                                         ![j].attempt = attempt]
                   /\ io' = [io EXCEPT ![j].queries = @ + 1,
                                       ![j].last = Some(r)]
    /\ UNCHANGED <<chat_state, jobs, args, files, audio_out, script_out, resp>>

\* lines 450-470 and main.py line 290: timeout test, download, path returned
L450(j) ==
    /\ pc[j] = "l450"
    /\ IF ~Truthy(loc[j].synced_video_url)
       THEN /\ Raise(j, LipsyncTimeoutMsg)
            /\ io' = [io EXCEPT ![j] =
                        EndPoll([@ EXCEPT !.ls_tasks = SetLast(@, "timeout")])]
            /\ files' = files
       ELSE \E o \in DownloadOutcomes :
              /\ io' = [io EXCEPT ![j] = EndPoll([@ EXCEPT !.downloads = @ + 1])]
              /\ CASE o = "ok" ->
                        /\ files' = files \cup {FinalFile}
                        /\ loc' = [loc EXCEPT ![j] =
                                      [PopFrame(@) EXCEPT !.final_video =
                                          Some(FinalFile)]]
                        /\ pc' = [pc EXCEPT ![j] = "l296"]
                   [] o = "non200" ->
                        /\ Raise(j, Msg("Failed to download synced video: ", "404"))
                        /\ files' = files
                   [] o = "transport" ->
                        /\ Raise(j, Msg("Failed to download synced video: ",
                                        "ConnectionError"))
                        /\ files' = files
    /\ UNCHANGED <<chat_state, jobs, args, audio_out, script_out, resp>>

----------------------------------------------------------------------------
(* main.py lines 295-307: the end of the worker *)

L296(j) ==
    /\ pc[j] = "l296"
    /\ jobs' = [jobs EXCEPT ![j].status = "completed"]
    /\ pc' = [pc EXCEPT ![j] = "l297"]
    /\ UNCHANGED <<chat_state, args, loc, io, files, audio_out, script_out, resp>>

L297(j) ==
    /\ pc[j] = "l297"
    /\ jobs' = [jobs EXCEPT ![j].progress = <<"Video production complete!">>]
    /\ pc' = [pc EXCEPT ![j] = "l298"]
    /\ UNCHANGED <<chat_state, args, loc, io, files, audio_out, script_out, resp>>

\* clips_generated taken from the number of script segments
L298_CountsSegments(j) ==
    /\ pc[j] = "l298"
    /\ IF args[j].audio_data.duration = None
       THEN /\ Raise(j, KeyErrorMsg("duration"))
            /\ jobs' = jobs
       ELSE /\ jobs' = [jobs EXCEPT ![j].result =
                          Some([final_video_path |-> loc[j].final_video[1],
                                duration |-> args[j].audio_data.duration[1],
                                clips_generated |->
                                    Len(args[j].script_data.segments)])]
            /\ pc' = [pc EXCEPT ![j] = "done"]
            /\ loc' = loc
    /\ UNCHANGED <<chat_state, args, io, files, audio_out, script_out, resp>>

\* the result stored before audio_data["duration"] is read
L298_ResultFirst(j) ==
    /\ pc[j] = "l298"
    /\ jobs' = [jobs EXCEPT ![j].result =
                   Some([final_video_path |-> loc[j].final_video[1],
                         duration |-> args[j].audio_data.duration,
                         clips_generated |-> Len(loc[j].clip_paths)])]
    /\ IF args[j].audio_data.duration = None
       THEN Raise(j, KeyErrorMsg("duration"))
       ELSE /\ pc' = [pc EXCEPT ![j] = "done"]
            /\ loc' = loc
    /\ UNCHANGED <<chat_state, args, io, files, audio_out, script_out, resp>>

\* lines 298-302: the result dict is built, audio_data["duration"] read
L298(j) ==
    /\ pc[j] = "l298"
    /\ IF args[j].audio_data.duration = None
       THEN /\ Raise(j, KeyErrorMsg("duration"))
            /\ jobs' = jobs
       ELSE /\ jobs' = [jobs EXCEPT ![j].result =
                          Some([final_video_path |-> loc[j].final_video[1],
                                duration |-> args[j].audio_data.duration[1],
                                clips_generated |-> Len(loc[j].clip_paths)])]
            /\ pc' = [pc EXCEPT ![j] = "done"]
            /\ loc' = loc
    /\ UNCHANGED <<chat_state, args, io, files, audio_out, script_out, resp>>

\* a status of its own for jobs that ran out of polling attempts
L306_TimedOut(j) ==
    /\ pc[j] = "l306"
    /\ jobs' = [jobs EXCEPT ![j].status =
                   IF loc[j].exc \in {ClipTimeoutMsg(k) : k \in 1..(MaxClips + 1)}
                                   \cup {LipsyncTimeoutMsg}
                   THEN "timed_out" ELSE "failed"]
    /\ pc' = [pc EXCEPT ![j] = "l307"]
    /\ UNCHANGED <<chat_state, args, loc, io, files, audio_out, script_out, resp>>

\* an except clause that swallows the exception
L306_Swallowed(j) ==
    /\ pc[j] = "l306"
    /\ pc' = [pc EXCEPT ![j] = "done"]
    /\ UNCHANGED <<chat_state, jobs, args, loc, io, files, audio_out, script_out, resp>>

\* line 306, in the except clause
L306(j) ==
    /\ pc[j] = "l306"
    /\ jobs' = [jobs EXCEPT ![j].status = "failed"]
    /\ pc' = [pc EXCEPT ![j] = "l307"]
    /\ UNCHANGED <<chat_state, args, loc, io, files, audio_out, script_out, resp>>

\* an except clause that also stores the clips produced so far as result
L307_PartialResult(j) ==
    /\ pc[j] = "l307"
    /\ jobs' = [jobs EXCEPT ![j].error = loc[j].exc,
                            ![j].result = Some([clips |-> loc[j].clip_paths])]
    /\ pc' = [pc EXCEPT ![j] = "done"]
    /\ UNCHANGED <<chat_state, args, loc, io, files, audio_out, script_out, resp>>

\* line 307
L307(j) ==
    /\ pc[j] = "l307"
    /\ jobs' = [jobs EXCEPT ![j].error = loc[j].exc]
    /\ pc' = [pc EXCEPT ![j] = "done"]
    /\ UNCHANGED <<chat_state, args, loc, io, files, audio_out, script_out, resp>>

----------------------------------------------------------------------------
(* One production job, any behaviour of the outside world *)

OneJob == {"job-1"}

Worker(j) ==
    \/ L190(j) \/ L191(j) \/ L203(j)
    \/ ClipSubmit(j) \/ ClipSleep(j) \/ ClipQuery(j) \/ L239(j) \/ ClipTrim(j)
    \/ L236(j)
    \/ L241(j) \/ L242(j) \/ AsmCheck(j) \/ AsmConcat(j) \/ AsmMux(j)
    \/ L268(j) \/ L269(j) \/ LsCheck(j) \/ LsSubmit(j) \/ LsSleep(j)
    \/ LsQuery(j) \/ L450(j)
    \/ L296(j) \/ L297(j) \/ L298(j) \/ L306(j) \/ L307(j)

Submit(j) ==
    \E image_path \in ImagePaths, input \in ProductionInputs :
        StartProduction(j, image_path, input[1], input[2])

Next ==
    \/ \E j \in OneJob : Submit(j)
    \/ \E j \in OneJob : Worker(j)

Spec == Init /\ [][Next]_vars

\* every external call returns and the background task is scheduled: a
\* worker that can take its next step eventually takes it
WorkerProgress == \A j \in OneJob : WF_vars(Worker(j))

SpecLive == Init /\ [][Next]_vars /\ WorkerProgress

----------------------------------------------------------------------------
(* One production job and a client that asks for job statuses at any time *)

MaxPolls == 2

\* the outside services answer every task within MaxPolls status queries
PollsWithin(k) == \A j \in JobIds : io[j].queries <= k

NextStatus ==
    \/ \E j \in OneJob : Submit(j)
    \/ \E j \in OneJob : Worker(j) /\ PollsWithin(MaxPolls)'
    \/ \E job_id \in QueryIds : GetJobStatus(job_id)

SpecStatus == Init /\ [][NextStatus]_vars

----------------------------------------------------------------------------
(* Several production jobs at once, their workers interleaved *)

MaxJobClips == 1

\* what each of the concurrent jobs is submitted with
JobInputs ==
    {<<FullScript, [audio_path |-> AudioFile, duration |-> Some(224),
                    required_clips |-> n]>> : n \in 1..MaxJobClips}

\* an id handed out again once its job has ended
SubmitJob_ReusedId(j) ==
    \E image_path \in ImagePaths, input \in JobInputs :
        /\ pc[j] \in {"idle", "done"}
        /\ jobs' = (j :> [job_id |-> j, status |-> "started",
                          progress |-> <<"Initializing...">>,
                          result |-> None, error |-> None]) @@ jobs
        /\ args' = [args EXCEPT ![j] = [image_path |-> image_path,
                                        script_data |-> input[1],
                                        audio_data |-> input[2]]]
        /\ pc' = [pc EXCEPT ![j] = "l190"]
        /\ loc' = [loc EXCEPT ![j] = LocInit]
        /\ io' = [io EXCEPT ![j] = IoInit]
        /\ resp' = [route |-> "start-production", job_id |-> j, code |-> 200,
                    content |-> [job_id |-> j]]
        /\ UNCHANGED <<chat_state, files, audio_out, script_out>>

SubmitJob(j) ==
    \E image_path \in ImagePaths, input \in JobInputs :
        StartProduction(j, image_path, input[1], input[2])

\* a status answer that ends polling: completed with its result reference,
\* or failed with its error text
TerminalAnswer(r) ==
    /\ r.kind = "http"
    /\ r.code = 200
    /\ r.status \in {s_completed, s_failed}
    /\ r.status = s_completed => Truthy(r.video_url) /\ Truthy(r.output_url)
    /\ r.status = s_failed => r.error # None

\* the outside services answer every status query with a terminal answer
PromptAnswers ==
    \A j \in JobIds : io[j].last # None => TerminalAnswer(io[j].last[1])

NextJobs ==
    \/ \E j \in JobIds : SubmitJob(j)
    \/ \E j \in JobIds : Worker(j) /\ PromptAnswers'

SpecJobs == Init /\ [][NextJobs]_vars

----------------------------------------------------------------------------
(* tools.py: generate_audio_tool, called on its own by the preview route *)

\* math.ceil(num / den) for den > 0
MathCeil(num, den) == -((-num) \div den)

\* integer division in place of math.ceil
RequiredClips_Floor(deci) == deci \div (10 * CLIP_DURATION)

\* line 149, for a duration measured in tenths of a second
RequiredClips(deci) == MathCeil(deci, 10 * CLIP_DURATION)

\* the bodies a service sends with a non-success code
ErrorBodies == {"rate limit exceeded", ""}

\* the speech request answers with a code and a body; ffmpeg.probe then
\* measures the file or fails
AudioOutcomes ==
    [code : {429, 500}, body : ErrorBodies, probe : {"error"}, deci : {0}]
    \cup [code : {200}, body : {"mp3"}, probe : {"error"}, deci : {0}]
    \cup [code : {200}, body : {"mp3"}, probe : {"ok"}, deci : 0..MaxDeci]

\* an error text that leaves the response body out
AudioFailedMsg_NoBody(response) ==
    Msg("Audio generation failed: ", "non-success response")

\* line 136: f"Audio generation failed: {response.text}"
AudioFailedMsg(response) == Msg("Audio generation failed: ", response.body)

\* lines 114-157: one POST, then the file, the probe and the clip count
GenerateAudio ==
    \E o \in AudioOutcomes :
        LET response == [code |-> o.code, body |-> o.body]
        IN
        /\ IF o.code # 200
           THEN /\ audio_out' = [posts |-> 1, response |-> response,
                                 error |-> Some(AudioFailedMsg(response)),
                                 result |-> None]
                /\ files' = files
           ELSE /\ files' = files \cup {AudioFile}
                /\ IF o.probe = "error"
                   THEN audio_out' =
                            [posts |-> 1, response |-> response,
                             error |-> Some(Msg("Failed to probe audio file: ", "probe")),
                             result |-> None]
                   ELSE audio_out' =
                            [posts |-> 1, response |-> response,
                             error |-> None,
                             result |-> Some([audio_path |-> AudioFile,
                                              duration |-> o.deci,
                                              required_clips |-> RequiredClips(o.deci)])]
        /\ UNCHANGED <<chat_state, jobs, pc, args, loc, io, resp, script_out>>

\* the working directory before any audio has been produced
InitAudio ==
    /\ jobs = <<>>
    /\ pc = [j \in JobIds |-> "idle"]
    /\ args = [j \in JobIds |-> None]
    /\ loc = [j \in JobIds |-> LocInit]
    /\ io = [j \in JobIds |-> IoInit]
    /\ files = ImagePaths
    /\ audio_out = None
    /\ resp = None
    /\ script_out = None
    /\ ChatInit

SpecAudio == InitAudio /\ [][GenerateAudio]_vars

----------------------------------------------------------------------------
(* tools.py: assemble_video_tool called with any parameters *)

\* the clip_paths parameter: any list of clip paths of the working directory
ClipLists ==
    UNION {[1..n -> {ClipFile(k) : k \in 1..MaxClips}] : n \in 0..MaxClips}

\* the tool is about to run with some clip_paths and the audio path, and
\* any of the files they name may be on disk or not
InitAssembly ==
    /\ jobs = <<>>
    /\ pc = [j \in JobIds |-> IF j \in OneJob THEN "asm_check" ELSE "idle"]
    /\ \E clip_paths \in ClipLists :
          /\ args = [j \in JobIds |->
                       IF j \in OneJob
                       THEN [image_path |-> File("upload_person.jpg"),
                             script_data |-> FullScript,
                             audio_data |-> [audio_path |-> AudioFile,
                                             duration |-> Some(224),
                                             required_clips |-> Len(clip_paths)]]
                       ELSE None]
          /\ loc = [j \in JobIds |->
                      IF j \in OneJob
                      THEN [LocInit EXCEPT !.clip_paths = clip_paths,
                                           !.required_clips = Len(clip_paths),
                                           !.i = Len(clip_paths)]
                      ELSE LocInit]
    /\ io = [j \in JobIds |-> IoInit]
    /\ files \in SUBSET ({ClipFile(k) : k \in 1..MaxClips} \cup {AudioFile})
    /\ audio_out = None
    /\ resp = None
    /\ script_out = None
    /\ ChatInit

AssembleVideo ==
    \E j \in OneJob : AsmCheck(j) \/ AsmConcat(j) \/ AsmMux(j)

SpecAssembly == InitAssembly /\ [][AssembleVideo]_vars

----------------------------------------------------------------------------
(* tools.py: analyze_image_tool, and the two single-shot tools together *)

ScriptFile == File("script.json")

\* the message content of a chat completion, as the pieces the clean-up
\* looks for: bare JSON, JSON in a json code fence, JSON in a plain fence
ScriptContents ==
    {<<"{script}">>, <<"fence-json", "{script}", "fence">>, <<"fence", "{script}", "fence">>}

\* the chat request answers with a code and a body; a 200 body is not
\* JSON, or JSON without choices, or a completion with its content
ScriptOutcomes ==
    [code : {429, 500}, body : ErrorBodies, content : {None}]
    \cup [code : {200}, body : {"not json", "no choices"}, content : {None}]
    \cup [code : {200}, body : {"completion"}, content : ScriptContents]

Contains(content, piece) == \E k \in DOMAIN content : content[k] = piece

\* lines 94-97: with a json code fence the second split is called on a list
\* (None stands for the AttributeError); with a plain fence the text is cut
\* at six backticks, which it does not have, and stripped
CleanScript(content) ==
    IF Contains(content, "fence-json") THEN None
    ELSE Some(content)

\* line 88: f"Script generation failed: {response.text}"
ScriptFailedMsg(response) == Msg("Script generation failed: ", response.body)

\* lines 37-104: read the image, one POST, clean the content, save it
AnalyzeImage ==
    \E image_path \in ImagePaths \cup {File("missing.jpg")}, o \in ScriptOutcomes :
        LET response == [code |-> o.code, body |-> o.body]
            fail(posts, r, msg) ==
                /\ script_out' = [posts |-> posts, response |-> r,
                                  error |-> Some(msg), result |-> None]
                /\ files' = files
        IN
        /\ IF ~Exists(image_path)
           THEN fail(0, None, Msg("No such file or directory: ", image_path))
           ELSE IF o.code # 200
           THEN fail(1, response, ScriptFailedMsg(response))
           ELSE IF o.body = "not json"
           THEN fail(1, response, Msg("JSONDecodeError", None))
           ELSE IF o.body = "no choices"
           THEN fail(1, response, KeyErrorMsg("choices"))
           ELSE LET cleaned == CleanScript(o.content)
                IN IF cleaned = None
                   THEN fail(1, response,
                             Msg("'list' object has no attribute 'split'", None))
                   ELSE /\ script_out' = [posts |-> 1, response |-> response,
                                          error |-> None, result |-> cleaned]
                        /\ files' = files \cup {ScriptFile}
        /\ UNCHANGED <<chat_state, jobs, pc, args, loc, io, audio_out, resp>>

MaxSyncDeci == 20

\* the audio measured is at most MaxSyncDeci tenths of a second long
ShortAudio ==
    (audio_out # None /\ audio_out.result # None) =>
       audio_out.result[1].duration <= MaxSyncDeci

SingleShotCall ==
    \/ AnalyzeImage
    \/ GenerateAudio /\ ShortAudio'

SpecSync == InitAudio /\ [][SingleShotCall]_vars

----------------------------------------------------------------------------
(* apply_lip_sync_tool called on its own: the assembled video and the audio
   file may or may not be on disk *)

InitLipsync ==
    /\ jobs = <<>>
    /\ pc = [j \in JobIds |-> IF j \in OneJob THEN "ls_check" ELSE "idle"]
    /\ args = [j \in JobIds |->
                 IF j \in OneJob
                 THEN [image_path |-> File("upload_person.jpg"),
                       script_data |-> FullScript,
                       audio_data |-> [audio_path |-> AudioFile,
                                       duration |-> Some(70),
                                       required_clips |-> 1]]
                 ELSE None]
    /\ loc = [j \in JobIds |->
                IF j \in OneJob
                THEN [LocInit EXCEPT !.assembled_video = Some(RawWithAudioFile)]
                ELSE LocInit]
    /\ io = [j \in JobIds |-> IoInit]
    /\ files \in SUBSET {RawWithAudioFile, AudioFile}
    /\ audio_out = None
    /\ resp = None
    /\ script_out = None
    /\ ChatInit

ApplyLipSync ==
    \E j \in OneJob :
        LsCheck(j) \/ LsSubmit(j) \/ LsSleep(j) \/ LsQuery(j) \/ L450(j)

SpecLipsync == InitLipsync /\ [][ApplyLipSync]_vars

----------------------------------------------------------------------------
(* server_with_langsmith.py and ugc_orchestrator_agent.py: the UGC chat
   workflow.  A handler runs from start to end without yielding to another
   request once its uploads are read, so each request is one step.  The
   timestamps of messages and of file names are left out. *)

NumVariants == 4

MaxUuids == 2

MaxMessages == 3

\* str(uuid.uuid4()): the n-th draw, different from every earlier one
Uuid(n) == <<"uuid", n>>

\* a conversation id chosen by the client
ClientId == <<"client-chosen", 0>>

EmptyName == <<"", 0>>

\* truthiness of an optional path or id: None and "" are falsy
TruthyName(v) == v # None /\ v # Some(EmptyName)

PersonFile == File("person.jpg")

ProductFile == File("product.jpg")

\* f"temp_person_{uuid.uuid4()}.jpg"
TempPersonFile(n) == <<"temp_person_%s.jpg", n>>

\* f"temp_product_{uuid.uuid4()}.jpg"
TempProductFile(n) == <<"temp_product_%s.jpg", n>>

\* f"generated_ugc_image_{i}.png"
OriginalFile(i) == <<"generated_ugc_image_%d.png", i>>

\* f"ugc_{conversation_id}_{timestamp_str}_{i}.png"
RenamedFile(conversation_id, i) == <<"ugc_%s_%s_%d.png", conversation_id, i>>

\* a message text is a list of pieces, arg the path or error it ends with
Text(pieces, arg) == [text |-> pieces, arg |-> arg]

UploadPrompt ==
    Text(<<"Please upload both a person image and a product image to generate UGC images.">>,
         None)

\* what crew.kickoff() may do: the image tool writes none of the four files
\* or some of them (here the second and the last), then the crew reports in
\* some words or raises
CrewTexts == {<<"Success", "generated_ugc_image">>, <<"no image generated">>}

WrittenSets == {{}, {2, NumVariants}}

CrewOutcomes ==
    [written : WrittenSets, ret : {"report"}, text : CrewTexts]
    \cup [written : WrittenSets, ret : {"raise"}, text : {<<"crew error">>}]

NoCall == [calls |-> 0, agents |-> 0, kickoffs |-> 0]

\* the product image looked for before the person image
generate_ugc_ProductFirst(fs, person_image_path, product_image_path, o) ==
    IF product_image_path \notin fs
    THEN [do |-> "return",
          value |-> Text(<<"Product image not found: ">>, product_image_path),
          files |-> fs,
          work |-> [calls |-> 1, agents |-> 0, kickoffs |-> 0]]
    ELSE IF person_image_path \notin fs
    THEN [do |-> "return",
          value |-> Text(<<"Person image not found: ">>, person_image_path),
          files |-> fs,
          work |-> [calls |-> 1, agents |-> 0, kickoffs |-> 0]]
    ELSE [do |-> IF o.ret = "raise" THEN "raise" ELSE "return",
          value |-> Text(o.text, None),
          files |-> fs \cup {OriginalFile(i) : i \in o.written},
          work |-> [calls |-> 1, agents |-> 1, kickoffs |-> 1]]

\* ugc_orchestrator_agent.py lines 81-188, on the disk contents fs
generate_ugc_with_orchestrator(fs, person_image_path, product_image_path, o) ==
    IF person_image_path \notin fs
    THEN [do |-> "return",
          value |-> Text(<<"Person image not found: ">>, person_image_path),
          files |-> fs,
          work |-> [calls |-> 1, agents |-> 0, kickoffs |-> 0]]
    ELSE IF product_image_path \notin fs
    THEN [do |-> "return",
          value |-> Text(<<"Product image not found: ">>, product_image_path),
          files |-> fs,
          work |-> [calls |-> 1, agents |-> 0, kickoffs |-> 0]]
    ELSE [do |-> IF o.ret = "raise" THEN "raise" ELSE "return",
          value |-> Text(o.text, None),
          files |-> fs \cup {OriginalFile(i) : i \in o.written},
          work |-> [calls |-> 1, agents |-> 1, kickoffs |-> 1]]

\* server_with_langsmith.py lines 159-182: the loop over the four file names
RECURSIVE RenameLoop(_, _, _, _)
RenameLoop(i, conversation_id, fs, generated_image_list) ==
    IF i > NumVariants
    THEN [files |-> fs, generated_image_list |-> generated_image_list]
    ELSE IF OriginalFile(i) \in fs
    THEN RenameLoop(i + 1, conversation_id,
                    (fs \ {OriginalFile(i)})
                        \cup {RenamedFile(conversation_id, i)},
                    Append(generated_image_list,
                           RenamedFile(conversation_id, i)))
    ELSE RenameLoop(i + 1, conversation_id, fs, generated_image_list)

Put(f, k, v) == (k :> v) @@ f

Remove(f, k) == [x \in DOMAIN f \ {k} |-> f[x]]

\* lines 200-212
Steps(assistant_message) ==
    <<"agent_thinking">>
    \o (IF Contains(assistant_message.text, "Success")
           /\ Contains(assistant_message.text, "generated_ugc_image")
        THEN <<"tool_call">> ELSE <<>>)

\* a message list started anew on every request
History_AlwaysNew(convs, conversation_id) == <<>>

\* lines 92-93: the message list of the conversation, made when missing
History(convs, conversation_id) ==
    IF conversation_id \in DOMAIN convs THEN convs[conversation_id] ELSE <<>>

\* server_with_langsmith.py lines 88-248: chat_ugc run on the disk contents
\* fs after u uuid draws; gives the new state and the reply
chat_ugc(fs, u, request, o) ==
    LET given == TruthyName(request.conversation_id)
        conversation_id ==
            IF given THEN request.conversation_id[1] ELSE Uuid(u + 1)
        history ==
            Append(History(conversations, conversation_id),
                   [role |-> "user", message |-> request.message])
        gen == IF TruthyName(request.person_image_path)
                  /\ TruthyName(request.product_image_path)
               THEN generate_ugc_with_orchestrator(
                        fs, request.person_image_path[1],
                        request.product_image_path[1], o)
               ELSE [do |-> "return", value |-> UploadPrompt, files |-> fs,
                     work |-> NoCall]
        renamed == RenameLoop(1, conversation_id, gen.files, <<>>)
    IN IF gen.do = "raise"
       THEN [conversation_id |-> conversation_id,
             conversations |-> Put(conversations, conversation_id, history),
             generated_images |-> generated_images,
             files |-> gen.files,
             uuids |-> IF given THEN u ELSE u + 1,
             work |-> gen.work,
             code |-> 500,
             content |->
                 [detail |-> Text(<<"Error processing request: ">>, gen.value)]]
       ELSE [conversation_id |-> conversation_id,
             conversations |->
                 Put(conversations, conversation_id,
                     Append(history, [role |-> "assistant",
                                      message |-> gen.value])),
             generated_images |->
                 IF renamed.generated_image_list # <<>>
                 THEN Put(generated_images, conversation_id,
                          renamed.generated_image_list)
                 ELSE generated_images,
             files |-> renamed.files,
             uuids |-> IF given THEN u ELSE u + 1,
             work |-> gen.work,
             code |-> 200,
             content |->
                 [conversation_id |-> conversation_id,
                  assistant_message |-> gen.value,
                  steps |-> Steps(gen.value),
                  generated_images |->
                      IF renamed.generated_image_list # <<>>
                      THEN Some(renamed.generated_image_list) ELSE None]]

\* the outcomes to draw for a request: the crew's outcome matters only
\* when the crew runs
OutcomesFor(fs, request) ==
    IF /\ TruthyName(request.person_image_path)
       /\ TruthyName(request.product_image_path)
       /\ request.person_image_path[1] \in fs
       /\ request.product_image_path[1] \in fs
    THEN CrewOutcomes
    ELSE {[written |-> {}, ret |-> "report", text |-> <<"no image generated">>]}

RECURSIVE SumLen(_)
SumLen(f) ==
    IF DOMAIN f = {} THEN 0
    ELSE LET k == CHOOSE x \in DOMAIN f : TRUE
         IN Len(f[k]) + SumLen(Remove(f, k))

\* the messages stored in all conversations together
Messages(convs) == SumLen(convs)

\* the variables of the video production backend
production_state == <<jobs, pc, args, loc, io, audio_out, script_out>>

\* the requests a caller of chat_ugc may make: each image path absent,
\* empty or given; no conversation id, an empty one, one the client made
\* up, or one the server knows
ChatRequests ==
    [message : {"show the product"},
     person_image_path : {None, Some(EmptyName), Some(PersonFile)},
     product_image_path : {None, Some(ProductFile)},
     conversation_id : {None, Some(EmptyName), Some(ClientId)}
                       \cup {Some(c) : c \in DOMAIN conversations}]

\* lines 88-248: one call of chat_ugc
ChatUgc ==
    \E request \in ChatRequests :
    \E o \in OutcomesFor(files, request) :
    \E run \in {chat_ugc(files, uuids, request, o)} :
          /\ run.uuids <= MaxUuids
          /\ Messages(run.conversations) <= MaxMessages
          /\ conversations' = run.conversations
          /\ generated_images' = run.generated_images
          /\ files' = run.files
          /\ uuids' = run.uuids
          /\ resp' = [route |-> "chat", request |-> request, saved |-> {},
                      conversation_id |-> run.conversation_id,
                      work |-> run.work,
                      code |-> run.code, content |-> run.content]
          /\ UNCHANGED production_state

\* lines 252-325: POST /chat/ugc/upload; person_image and product_image
\* tell whether the part was uploaded
ChatUgcWithUpload ==
    \E person_image \in BOOLEAN, product_image \in BOOLEAN,
       conversation_id \in {None, Some(ClientId)}
                           \cup {Some(c) : c \in DOMAIN conversations} :
       LET u1 == IF person_image THEN uuids + 1 ELSE uuids
           u2 == IF product_image THEN u1 + 1 ELSE u1
           person_image_path ==
               IF person_image THEN Some(TempPersonFile(u1)) ELSE None
           product_image_path ==
               IF product_image THEN Some(TempProductFile(u2)) ELSE None
           saved == (IF person_image THEN {TempPersonFile(u1)} ELSE {})
                    \cup (IF product_image THEN {TempProductFile(u2)} ELSE {})
           request == [message |-> "show the product",
                       person_image_path |-> person_image_path,
                       product_image_path |-> product_image_path,
                       conversation_id |-> conversation_id]
       IN \E o \in OutcomesFor(files \cup saved, request) :
          \E run \in {chat_ugc(files \cup saved, u2, request, o)} :
             /\ run.uuids <= MaxUuids
             /\ Messages(run.conversations) <= MaxMessages
             /\ conversations' = run.conversations
             /\ generated_images' = run.generated_images
             /\ files' = IF run.code = 200 THEN run.files \ saved
                         ELSE run.files
             /\ uuids' = run.uuids
             /\ resp' = [route |-> "upload", request |-> request,
                         saved |-> saved,
                         conversation_id |-> run.conversation_id,
                         work |-> run.work,
                         code |-> run.code, content |-> run.content]
             /\ UNCHANGED production_state

\* the ids a client may name: every id the server can have issued and the
\* one the client made up
ConversationIds == {Uuid(n) : n \in 1..MaxUuids} \cup {ClientId}

\* lines 337-349: GET /conversation/{conversation_id}
GetConversation ==
    \E conversation_id \in ConversationIds :
       /\ resp' = IF conversation_id \notin DOMAIN conversations
                  THEN [route |-> "get-conversation",
                        conversation_id |-> conversation_id, code |-> 404,
                        content |-> [detail |-> "Conversation not found"]]
                  ELSE [route |-> "get-conversation",
                        conversation_id |-> conversation_id, code |-> 200,
                        content |->
                           [conversation_id |-> conversation_id,
                            messages |-> conversations[conversation_id],
                            generated_image |->
                               IF conversation_id \in DOMAIN generated_images
                               THEN Some(generated_images[conversation_id])
                               ELSE None]]
       /\ UNCHANGED <<production_state, conversations, generated_images,
                      uuids, files>>

\* lines 351-365: DELETE /conversation/{conversation_id}.  The value stored
\* at line 186 is a list, and os.path.exists raises TypeError for a list:
\* the handler ends there and the framework answers 500
DeleteConversation ==
    \E conversation_id \in ConversationIds :
       /\ conversations' = Remove(conversations, conversation_id)
       /\ resp' = IF conversation_id \in DOMAIN generated_images
                  THEN [route |-> "delete-conversation",
                        conversation_id |-> conversation_id, code |-> 500,
                        content |-> [detail |-> "Internal Server Error"]]
                  ELSE [route |-> "delete-conversation",
                        conversation_id |-> conversation_id, code |-> 200,
                        content |-> [status |-> "deleted",
                                     conversation_id |-> conversation_id]]
       /\ UNCHANGED <<production_state, generated_images, uuids, files>>

InitChat ==
    /\ jobs = <<>>
    /\ pc = [j \in JobIds |-> "idle"]
    /\ args = [j \in JobIds |-> None]
    /\ loc = [j \in JobIds |-> LocInit]
    /\ io = [j \in JobIds |-> IoInit]
    /\ files \in SUBSET {PersonFile, ProductFile}
    /\ audio_out = None
    /\ resp = None
    /\ script_out = None
    /\ ChatInit

NextChat ==
    \/ ChatUgc
    \/ ChatUgcWithUpload
    \/ GetConversation
    \/ DeleteConversation

SpecChat == InitChat /\ [][NextChat]_vars

----------------------------------------------------------------------------
(* Properties of the job status (main.py) *)

Last(seq) == seq[Len(seq)]

StatusOrder ==
    <<"started", "generating_videos", "assembling", "lipsyncing", "completed">>

Rank(status) == CHOOSE k \in DOMAIN StatusOrder : StatusOrder[k] = status

C2_TerminalRecordImmutable ==
    [][\A j \in DOMAIN jobs :
          jobs[j].status \in {"completed", "failed"} => jobs'[j] = jobs[j]]_vars

\* C3: once a stage has raised, the worker is in its except clause or done,
\* it asks nothing more of the outside world, and it ends with status failed
\* and the exception's message as error; when clip i+1 raised, at most i+1
\* clips were submitted and assembly and lip-sync were never called; when
\* assembly raised, lip-sync was never called.
C3_StageFailureEndsJob ==
    /\ [](\A j \in JobIds :
            loc[j].exc # None =>
               /\ pc[j] \in {"l306", "l307", "done"}
               /\ pc[j] = "done" =>
                     /\ jobs[j].status = "failed"
                     /\ jobs[j].error = loc[j].exc
               /\ loc[j].i < loc[j].required_clips =>
                     /\ Len(io[j].submits) <= loc[j].i + 1
                     /\ io[j].asm = <<>>
                     /\ io[j].ls_submits = 0
               /\ loc[j].assembled_video = None => io[j].ls_submits = 0)
    /\ [][\A j \in JobIds :
            loc[j].exc # None => io'[j] = io[j] /\ files' = files]_vars

C3_Witness ==
    /\ pc["job-1"] = "done"
    /\ loc["job-1"].exc # None
    /\ loc["job-1"].required_clips = 3
    /\ loc["job-1"].i = 1
    /\ Len(io["job-1"].submits) = 2
    /\ jobs["job-1"].status = "failed"

----------------------------------------------------------------------------
(* Properties of the pollers (tools.py) *)

\* C4: while a task is polled the number of status queries issued for it
\* never exceeds max_attempts (120 for a clip, 10 for lip-sync), and when
\* the loop has ended without a result reference, so that a timeout is about
\* to be declared, at least one status query has been issued.
C4_PollBudget ==
    \A j \in JobIds :
       /\ pc[j] \in {"clip_sleep", "clip_query", "l239"} =>
             io[j].queries <= max_attempts_clip
       /\ pc[j] \in {"ls_sleep", "ls_query", "l450"} =>
             io[j].queries <= max_attempts_lipsync
       /\ (pc[j] = "l239" /\ ~Truthy(loc[j].video_url)) => io[j].queries >= 1
       /\ (pc[j] = "l450" /\ ~Truthy(loc[j].synced_video_url)) =>
             io[j].queries >= 1

C4_Witness ==
    /\ pc["job-1"] = "l239"
    /\ ~Truthy(loc["job-1"].video_url)
    /\ io["job-1"].queries = max_attempts_clip

JobStatuses ==
    {"started", "generating_videos", "assembling", "lipsyncing",
     "completed", "failed"}

\* C5: a polling loop that ends without a result reference is followed by
\* the timeout exception; a job whose clip or lip-sync task timed out is in
\* its except clause and ends with status failed and the timeout message as
\* its error; and no job ever has a status outside the six documented ones.
C5_TimeoutFailsJob ==
    /\ [](\A j \in JobIds :
            /\ j \in DOMAIN jobs => jobs[j].status \in JobStatuses
            /\ (io[j].tasks # <<>> /\ Last(io[j].tasks) = "timeout") =>
                  /\ loc[j].exc = ClipTimeoutMsg(loc[j].i + 1)
                  /\ pc[j] \in {"l306", "l307", "done"}
                  /\ pc[j] = "done" =>
                        /\ jobs[j].status = "failed"
                        /\ jobs[j].error = ClipTimeoutMsg(loc[j].i + 1)
            /\ (io[j].ls_tasks # <<>> /\ Last(io[j].ls_tasks) = "timeout") =>
                  /\ loc[j].exc = LipsyncTimeoutMsg
                  /\ pc[j] \in {"l306", "l307", "done"}
                  /\ pc[j] = "done" =>
                        /\ jobs[j].status = "failed"
                        /\ jobs[j].error = LipsyncTimeoutMsg)
    /\ [][\A j \in JobIds :
            /\ (pc[j] = "l239" /\ ~Truthy(loc[j].video_url)
                   /\ pc'[j] # pc[j]) =>
                  /\ pc'[j] = "l306"
                  /\ loc'[j].exc = ClipTimeoutMsg(loc[j].clip_index)
            /\ (pc[j] = "l450" /\ ~Truthy(loc[j].synced_video_url)
                   /\ pc'[j] # pc[j]) =>
                  /\ pc'[j] = "l306"
                  /\ loc'[j].exc = LipsyncTimeoutMsg]_vars

C5_Witness ==
    /\ pc["job-1"] = "done"
    /\ jobs["job-1"].status = "failed"
    /\ jobs["job-1"].error = ClipTimeoutMsg(2)

CountOf(seq, v) == Cardinality({k \in DOMAIN seq : seq[k] = v})

\* the result downloads requested so far are those of the tasks that ended
\* in success, one each
NoOtherDownload(j) ==
    io[j].downloads = CountOf(io[j].tasks, "success")
                      + CountOf(io[j].ls_tasks, "success")

\* C6: when the latest poll response carries a terminal-failure status
\* (clip: failed or error as sent; lip-sync: FAILED, REJECTED, CANCELLED or
\* ERROR in any letter case), the worker has left the poller for the except
\* clause with the task-failed message that carries the upstream error, the
\* task is recorded as failed, and no download was requested for it.
C6_TerminalFailureStopsPolling ==
    \A j \in JobIds :
       (io[j].last # None /\ io[j].last[1].kind = "http"
           /\ io[j].last[1].code = 200) =>
          LET r == io[j].last[1]
          IN /\ (io[j].ls_tasks = <<>> /\ r.status \in {s_failed, s_error}) =>
                   /\ pc[j] \in {"l306", "l307", "done"}
                   /\ loc[j].exc =
                        Msg("Video generation failed: ",
                            IF r.error = None THEN "Unknown error" ELSE r.error[1])
                   /\ Last(io[j].tasks) = "failed"
                   /\ NoOtherDownload(j)
             /\ (io[j].ls_tasks # <<>>
                   /\ Upper(r.status) \in {S_FAILED, S_REJECTED, S_CANCELLED,
                                           S_ERROR}) =>
                   /\ pc[j] \in {"l306", "l307", "done"}
                   /\ loc[j].exc =
                        IF r.error = None
                        THEN Msg("Lipsync failed with status: ", Upper(r.status))
                        ELSE Msg(r.error[1], None)
                   /\ Last(io[j].ls_tasks) = "failed"
                   /\ NoOtherDownload(j)

C6_Witness ==
    /\ pc["job-1"] = "done"
    /\ io["job-1"].ls_tasks = <<"failed">>
    /\ io["job-1"].last # None
    /\ io["job-1"].last[1].status = s_Failed
    /\ jobs["job-1"].status = "failed"
    /\ jobs["job-1"].error = Msg("face not detected", None)

\* a field that is present with a non-empty value
HasValue(field) == field # None /\ field # Some("")

\* C7: in the clip poller, when the latest poll response reports complete or
\* completed and carries a result reference, the loop has ended and the
\* reference kept is the value of video_url if it has one and the value of
\* output_url otherwise; so a completed response with output_url alone that
\* comes as the sixth response ends polling at six queries with output_url.
C7_ClipResultReference ==
    \A j \in JobIds :
       (io[j].ls_tasks = <<>> /\ io[j].last # None
           /\ io[j].last[1].kind = "http" /\ io[j].last[1].code = 200
           /\ io[j].last[1].status \in {s_complete, s_completed}) =>
          LET r == io[j].last[1]
              ref == IF HasValue(r.video_url) THEN r.video_url ELSE r.output_url
          IN HasValue(ref) =>
                /\ pc[j] = "l239"
                /\ loc[j].video_url = ref
                /\ Last(io[j].tasks) = "success"

C7_Witness ==
    /\ pc["job-1"] = "l239"
    /\ io["job-1"].queries = 6
    /\ io["job-1"].last # None
    /\ io["job-1"].last[1].status = s_completed
    /\ io["job-1"].last[1].video_url = None
    /\ io["job-1"].last[1].output_url = Some("output-url")
    /\ loc["job-1"].video_url = Some("output-url")

----------------------------------------------------------------------------
(* Properties of the stage sequence (main.py) *)

\* C8: clips are submitted in index order 1, 2, ..., one at a time: every
\* task but the latest has ended in success before the next submission, a
\* submission is made only when no task is open, and every clip-path list
\* handed to assembly is the list of the outputs of clips 1..N in order.
C8_ClipsInOrder ==
    \A j \in JobIds :
       /\ \A k \in DOMAIN io[j].submits : io[j].submits[k][1] = k
       /\ \A k \in DOMAIN io[j].tasks :
             k < Len(io[j].tasks) => io[j].tasks[k] = "success"
       /\ Len(io[j].tasks) <= Len(io[j].submits)
       /\ Len(io[j].submits) <= CountOf(io[j].tasks, "success") + 1
       /\ pc[j] = "clip_submit" => CountOf(io[j].tasks, "open") = 0
       /\ \A a \in DOMAIN io[j].asm :
             io[j].asm[a] =
                [k \in 1..loc[j].required_clips |-> ClipFile(k)]

C8_Witness ==
    /\ io["job-1"].asm # <<>>
    /\ Len(io["job-1"].asm[1]) = 3
    /\ Len(io["job-1"].submits) = 3

AllSucceeded(tasks, n) ==
    /\ Len(tasks) = n
    /\ \A k \in DOMAIN tasks : tasks[k] = "success"

\* C9: assembly is called at most once and only after all N clips have
\* returned, lip-sync is submitted at most once and only after assembly has
\* returned; status assembling is set only after all N clips have returned
\* and status lipsyncing only after assembly has returned; a completed job
\* has generated clips 1..N once each, then assembled once, then lip-synced
\* once (N = required_clips of the submitted audio data).
C9_EveryStageOnce ==
    \A j \in DOMAIN jobs :
       LET n == args[j].audio_data.required_clips
       IN /\ Len(io[j].asm) <= 1
          /\ io[j].ls_submits <= 1
          /\ Len(io[j].submits) <= n
          /\ io[j].asm # <<>> =>
                /\ AllSucceeded(io[j].tasks, n)
                /\ Len(io[j].submits) = n
                /\ Len(loc[j].clip_paths) = n
          /\ io[j].ls_submits > 0 =>
                /\ Len(io[j].asm) = 1
                /\ io[j].ffmpeg = 2
                /\ loc[j].assembled_video # None
          /\ jobs[j].status \in {"assembling", "lipsyncing", "completed"} =>
                /\ AllSucceeded(io[j].tasks, n)
                /\ Len(loc[j].clip_paths) = n
          /\ jobs[j].status \in {"lipsyncing", "completed"} =>
                /\ Len(io[j].asm) = 1
                /\ loc[j].assembled_video # None
          /\ jobs[j].status = "completed" =>
                /\ \A k \in 1..n : io[j].submits[k][1] = k
                /\ Len(io[j].submits) = n
                /\ io[j].ls_submits = 1
                /\ io[j].ls_tasks = <<"success">>
                /\ loc[j].final_video # None

C9_Witness ==
    /\ "job-1" \in DOMAIN jobs
    /\ jobs["job-1"].status = "completed"
    /\ args["job-1"].audio_data.required_clips = 3
    /\ Len(io["job-1"].submits) = 3
    /\ io["job-1"].ls_submits = 1

----------------------------------------------------------------------------
(* Properties of the audio tool (tools.py) *)

\* C10: the clip count returned with a measured duration d is ceil(d / 7):
\* d / 7 when d is a multiple of 7 seconds, otherwise the least integer
\* above d / 7; 21 s gives 3 and 22.4 s gives 4.  (d is in tenths of a
\* second, so 7 s is 70.)
C10_RequiredClipsIsCeil ==
    (audio_out # None /\ audio_out.result # None) =>
       LET d == audio_out.result[1].duration
           n == audio_out.result[1].required_clips
       IN /\ d % 70 = 0 => n * 70 = d
          /\ d % 70 # 0 => (n - 1) * 70 < d /\ d < n * 70
          /\ d = 210 => n = 3
          /\ d = 224 => n = 4

C10_Witness ==
    /\ audio_out # None
    /\ audio_out.result # None
    /\ audio_out.result[1].duration = 224
    /\ audio_out.result[1].required_clips = 4

----------------------------------------------------------------------------
(* Properties of the segment choice (main.py) *)

ThreeSegments(segs) ==
    /\ Len(segs) = 3
    /\ segs[1].type = "intro"
    /\ segs[2].type = "body"
    /\ segs[3].type = "outro"

\* C11: for a job with N >= 2 clips and a script of the three segments
\* intro, body, outro, the clip submitted for loop index 0 carries the prompt
\* of the intro segment, the one for index N-1 that of the outro segment,
\* and every one in between that of the body segment; with N = 3 the
\* segments of the three submissions are intro, body, outro.
C11_SegmentOfClip ==
    \A j \in DOMAIN jobs :
       LET segs == args[j].script_data.segments
           n == args[j].audio_data.required_clips
       IN (ThreeSegments(segs) /\ n >= 2) =>
             /\ \A k \in DOMAIN io[j].submits :
                   LET i == io[j].submits[k][1] - 1
                       chosen == io[j].submits[k][2]
                   IN /\ i = 0 => chosen = segs[1].prompt
                      /\ i = n - 1 => chosen = segs[3].prompt
                      /\ (0 < i /\ i < n - 1) => chosen = segs[2].prompt
             /\ (n = 3 /\ Len(io[j].submits) = 3) =>
                   [k \in 1..3 |-> segs[io[j].submits[k][2]].type]
                      = <<"intro", "body", "outro">>

C11_Witness ==
    /\ "job-1" \in DOMAIN jobs
    /\ ThreeSegments(args["job-1"].script_data.segments)
    /\ args["job-1"].audio_data.required_clips = 3
    /\ Len(io["job-1"].submits) = 3
    /\ io["job-1"].submits[2][2] = 2
    /\ io["job-1"].submits[3][2] = 3

----------------------------------------------------------------------------
(* Properties of the assembly tool (tools.py) *)

\* C12: when the clip-path list given to assembly holds a path that is not
\* on disk, at whatever position, then once the tool has acted it has raised
\* "Clip not found" for the first such path and no ffmpeg run, concatenation
\* or mux, has been made: nothing follows the failure either.
C12_MissingClipFailsBeforeFfmpeg ==
    /\ [](\A j \in OneJob :
            (\E k \in DOMAIN loc[j].clip_paths : ~Exists(loc[j].clip_paths[k])) =>
               /\ pc[j] \in {"asm_check", "l306"}
               /\ io[j].ffmpeg = 0
               /\ CombinedFile \notin files
               /\ RawWithAudioFile \notin files
               /\ pc[j] = "l306" =>
                     /\ io[j].asm = <<loc[j].clip_paths>>
                     /\ \E k \in DOMAIN loc[j].clip_paths :
                           /\ ~Exists(loc[j].clip_paths[k])
                           /\ loc[j].exc = Msg("Clip not found: ",
                                               loc[j].clip_paths[k]))
    /\ [][\A j \in OneJob :
            (pc[j] = "asm_check"
               /\ \E k \in DOMAIN loc[j].clip_paths :
                     ~Exists(loc[j].clip_paths[k])) =>
               pc'[j] = "l306" /\ io'[j].ffmpeg = 0]_vars

C12_Witness ==
    /\ pc["job-1"] = "l306"
    /\ Len(loc["job-1"].clip_paths) = 3
    /\ Exists(loc["job-1"].clip_paths[1])
    /\ Exists(loc["job-1"].clip_paths[2])
    /\ ~Exists(loc["job-1"].clip_paths[3])
    /\ Exists(AudioFile)
    /\ loc["job-1"].exc = Msg("Clip not found: ", loc["job-1"].clip_paths[3])
    /\ io["job-1"].ffmpeg = 0

\* C13: when the audio file given to assembly is not on disk, the tool makes
\* no ffmpeg run, neither concatenation nor mux: it fails on the audio
\* existence check before the media assembler is invoked.
C13_MissingAudioFailsBeforeFfmpeg ==
    \A j \in OneJob :
       (args[j] # None /\ ~Exists(args[j].audio_data.audio_path)) =>
          io[j].ffmpeg = 0

----------------------------------------------------------------------------
(* Properties of the job record (main.py) *)

\* C14: in every state every job record has a result only if its status is
\* completed and an error only if its status is failed, and never both.
C14_ResultAndErrorMatchStatus ==
    \A j \in DOMAIN jobs :
       /\ jobs[j].result # None => jobs[j].status = "completed"
       /\ jobs[j].error # None => jobs[j].status = "failed"
       /\ ~(jobs[j].result # None /\ jobs[j].error # None)

C14_Witness ==
    /\ "job-1" \in DOMAIN jobs
    /\ pc["job-1"] = "done"
    /\ jobs["job-1"].status = "failed"
    /\ jobs["job-1"].error = KeyErrorMsg("duration")
    /\ jobs["job-1"].result = None
    /\ loc["job-1"].final_video # None

----------------------------------------------------------------------------
(* Properties of the job routes (main.py) *)

\* C15: a job-status reply never shows a half-written terminal record: a
\* reply with status completed carries a result, and a reply with status
\* failed carries the error message.
C15_NoHalfWrittenTerminalReply ==
    (resp # None /\ resp.route = "job-status" /\ resp.code = 200) =>
       /\ resp.content.status = "completed" => resp.content.result # None
       /\ resp.content.status = "failed" => resp.content.error # None

InitialRecord(j) ==
    [job_id |-> j, status |-> "started", progress |-> <<"Initializing...">>,
     result |-> None, error |-> None]

C17_StatusQueryReadsOnly ==
    /\ [](\A q \in QueryIds :
            ENABLED (/\ GetJobStatus(q)
                     /\ resp'.route = "job-status"
                     /\ resp'.job_id = q
                     /\ IF q \in DOMAIN jobs
                        THEN /\ resp'.code = 200
                             /\ resp'.content.status = jobs[q].status
                             /\ resp'.content.progress = jobs[q].progress
                             /\ resp'.content.result = jobs[q].result
                             /\ resp'.content.error = jobs[q].error
                        ELSE resp'.code = 404))
    /\ [][(resp' # resp /\ resp'.route = "job-status") =>
             /\ jobs' = jobs
             /\ pc' = pc
             /\ (resp'.code = 404 <=> resp'.job_id \notin DOMAIN jobs)
             /\ resp'.code = 200 => resp'.content = jobs[resp'.job_id]]_vars

C17_Witness ==
    /\ resp # None
    /\ resp.route = "job-status"
    /\ resp.job_id = "job-0"
    /\ resp.code = 404
    /\ "job-1" \in DOMAIN jobs
    /\ "job-0" \notin DOMAIN jobs

----------------------------------------------------------------------------
(* Properties of several jobs (main.py, tools.py) *)

\* C18: every record of the registry is stored under its own job id; no
\* record ever leaves the registry; a step that adds a record leaves every
\* existing record as it was and issues an id whose worker has never run;
\* and no existing record is ever put back to the initial record.
C18_OneRecordPerJob ==
    /\ [](\A j \in DOMAIN jobs : jobs[j].job_id = j)
    /\ [][/\ DOMAIN jobs \subseteq DOMAIN jobs'
          /\ \A j \in DOMAIN jobs :
                /\ DOMAIN jobs' # DOMAIN jobs => jobs'[j] = jobs[j]
                /\ jobs[j] # InitialRecord(j) => jobs'[j] # InitialRecord(j)
          /\ \A j \in DOMAIN jobs' \ DOMAIN jobs :
                /\ pc[j] = "idle"
                /\ io[j] = IoInit
                /\ resp'.content.job_id = j
                /\ jobs'[j] = InitialRecord(j)
          /\ \A j \in JobIds :
                (pc[j] # "idle" /\ pc'[j] = "l190") => pc[j] = "l190"]_vars

C18_Witness ==
    /\ DOMAIN jobs = {"job-1", "job-2"}
    /\ jobs["job-1"].status = "completed"
    /\ jobs["job-1"].result # None
    /\ jobs["job-2"] = InitialRecord("job-2")
    /\ pc["job-2"] = "l190"

\* C19: a step of the worker of job A leaves the record of every other job
\* B (status, progress, result, error) unchanged.
C19_WorkerWritesOwnRecord ==
    [][\A a \in JobIds :
          (pc[a] # "idle" /\ pc'[a] # pc[a]) =>
             \A b \in DOMAIN jobs \ {a} :
                /\ b \in DOMAIN jobs'
                /\ jobs'[b] = jobs[b]]_vars

C19_Witness ==
    /\ DOMAIN jobs = {"job-1", "job-2"}
    /\ pc["job-1"] = "l203"
    /\ jobs["job-1"].progress = <<"Generated clip ", 1, "/", 1>>
    /\ pc["job-2"] = "l191"
    /\ jobs["job-2"].status = "generating_videos"
    /\ jobs["job-2"].progress = <<"Initializing...">>

Range(seq) == {seq[k] : k \in DOMAIN seq}

Running(j) == pc[j] \notin {"idle", "done"}

\* the artifact paths job j has written so far and still refers to
Written(j) ==
    Range(loc[j].clip_paths)
    \cup (IF io[j].asm # <<>> THEN {ConcatFile} ELSE {})
    \cup (IF loc[j].assembled_video # None THEN {CombinedFile, RawWithAudioFile}
          ELSE {})
    \cup (IF loc[j].final_video # None THEN {FinalFile} ELSE {})

\* C20: two jobs that are running at the same time have written no path in
\* common (clip files, concat list, combined video, video with audio, final
\* video).
C20_NoSharedArtifactPath ==
    \A a \in JobIds : \A b \in JobIds \ {a} :
       (Running(a) /\ Running(b)) => Written(a) \cap Written(b) = {}

----------------------------------------------------------------------------
(* Properties of the result download (tools.py) *)

\* the polling loop of job j has ended with a result reference and the
\* download of that result has not been requested yet
DownloadPending(j) ==
    \/ pc[j] = "l239" /\ Truthy(loc[j].video_url)
    \/ pc[j] = "l450" /\ Truthy(loc[j].synced_video_url)

\* C21: a result download is requested only for a task whose polling loop
\* ended with a result reference, and once for each such task; after a
\* non-success download response the worker is in its except clause with the
\* download-failed message, no further download is requested, and the
\* output file of that result (the raw clip, the final video) is not on
\* disk.
C21_DownloadOnceAfterReference ==
    /\ [](\A j \in OneJob :
            /\ io[j].downloads + (IF DownloadPending(j) THEN 1 ELSE 0)
                  = CountOf(io[j].tasks, "success")
                    + CountOf(io[j].ls_tasks, "success")
            /\ loc[j].exc = Msg("Failed to download video: ", "404") =>
                  /\ pc[j] \in {"l306", "l307", "done"}
                  /\ Last(io[j].tasks) = "success"
                  /\ RawClipFile(loc[j].i + 1) \notin files
                  /\ ClipFile(loc[j].i + 1) \notin files
                  /\ Len(loc[j].clip_paths) = loc[j].i
            /\ loc[j].exc = Msg("Failed to download synced video: ", "404") =>
                  /\ pc[j] \in {"l306", "l307", "done"}
                  /\ io[j].ls_tasks = <<"success">>
                  /\ FinalFile \notin files
                  /\ loc[j].final_video = None)
    /\ [][\A j \in OneJob :
            io'[j].downloads # io[j].downloads =>
               /\ DownloadPending(j)
               /\ io'[j].downloads = io[j].downloads + 1
               /\ pc'[j] \in {"clip_trim", "l296", "l306"}]_vars

C21_Witness ==
    /\ pc["job-1"] = "done"
    /\ loc["job-1"].exc = Msg("Failed to download video: ", "404")
    /\ loc["job-1"].i = 1
    /\ io["job-1"].downloads = 2
    /\ io["job-1"].tasks = <<"success", "success">>
    /\ RawClipFile(2) \notin files
    /\ jobs["job-1"].status = "failed"

----------------------------------------------------------------------------
(* Properties of the single-shot tools (tools.py) *)

\* C22: a call of the script tool or of the audio tool sends at most one
\* request, and exactly one whenever a response came back; when the
\* response code is not 200 the call fails with the tool's message followed
\* by the upstream response body and returns nothing; and the step of such
\* a call leaves the files on disk as they were (no script.json, no
\* full_audio.mp3 is written).
C22_SingleShotFailsWithBody ==
    /\ [](/\ script_out # None =>
                /\ script_out.posts <= 1
                /\ script_out.response # None =>
                      /\ script_out.posts = 1
                      /\ script_out.response.code # 200 =>
                            /\ script_out.error =
                                  Some(Msg("Script generation failed: ",
                                           script_out.response.body))
                            /\ script_out.result = None
          /\ audio_out # None =>
                /\ audio_out.posts = 1
                /\ audio_out.response.code # 200 =>
                      /\ audio_out.error =
                            Some(Msg("Audio generation failed: ",
                                     audio_out.response.body))
                      /\ audio_out.result = None)
    /\ [][/\ (script_out' # script_out /\ script_out'.response # None
                /\ script_out'.response.code # 200) => files' = files
          /\ (audio_out' # audio_out /\ audio_out'.response.code # 200) =>
                files' = files]_vars

C22_Witness ==
    /\ script_out # None
    /\ script_out.response = [code |-> 429, body |-> "rate limit exceeded"]
    /\ script_out.posts = 1
    /\ ScriptFile \notin files
    /\ audio_out # None
    /\ audio_out.response = [code |-> 500, body |-> "rate limit exceeded"]
    /\ AudioFile \notin files

----------------------------------------------------------------------------
(* Properties of the polling loops (tools.py) *)

\* a status query that ended in a transport error or a non-200 response
FailedPoll(r) == r.kind = "transport" \/ r.code # 200

\* C23: a status query that ends in a transport error or a non-200 response
\* raises nothing: the poller goes on to the next wait, or leaves the loop
\* when that was the last attempt, and the query has counted as an attempt.
\* Every query counts, so a loop left without a result reference has issued
\* exactly max_attempts queries (120 for a clip, 10 for lip-sync).
C23_FailedPollCountsAsAttempt ==
    /\ [][\A j \in OneJob :
            /\ (pc[j] = "clip_query" /\ pc'[j] # pc[j] /\ io'[j].last # None
                  /\ FailedPoll(io'[j].last[1])) =>
                  /\ loc'[j].exc = None
                  /\ loc'[j].attempt = loc[j].attempt + 1
                  /\ io'[j].queries = io[j].queries + 1
                  /\ loc'[j].video_url = loc[j].video_url
                  /\ io'[j].tasks = io[j].tasks
                  /\ pc'[j] = IF loc'[j].attempt < max_attempts_clip
                              THEN "clip_sleep" ELSE "l239"
            /\ (pc[j] = "ls_query" /\ pc'[j] # pc[j] /\ io'[j].last # None
                  /\ FailedPoll(io'[j].last[1])) =>
                  /\ loc'[j].exc = None
                  /\ loc'[j].attempt = loc[j].attempt + 1
                  /\ io'[j].queries = io[j].queries + 1
                  /\ loc'[j].synced_video_url = loc[j].synced_video_url
                  /\ io'[j].ls_tasks = io[j].ls_tasks
                  /\ pc'[j] = IF loc'[j].attempt < max_attempts_lipsync
                              THEN "ls_sleep" ELSE "l450"]_vars
    /\ [](\A j \in OneJob :
            /\ pc[j] \in {"clip_sleep", "clip_query", "l239",
                          "ls_sleep", "ls_query", "l450"} =>
                  loc[j].attempt = io[j].queries
            /\ (pc[j] = "l239" /\ ~Truthy(loc[j].video_url)) =>
                  io[j].queries = max_attempts_clip
            /\ (pc[j] = "l450" /\ ~Truthy(loc[j].synced_video_url)) =>
                  io[j].queries = max_attempts_lipsync)

C23_Witness ==
    /\ pc["job-1"] = "l450"
    /\ ~Truthy(loc["job-1"].synced_video_url)
    /\ io["job-1"].queries = max_attempts_lipsync
    /\ io["job-1"].last # None
    /\ io["job-1"].last[1].kind = "transport"
    /\ io["job-1"].tasks = <<"success", "success", "success">>

\* C24: every status query comes after a wait of its own: when a query is
\* about to be issued one more wait than queries has been done for the
\* task, at every other point of the loop as many waits as queries, so the
\* first query follows one wait after the submission and two queries are
\* separated by a wait.
C24_WaitBeforeEveryQuery ==
    /\ [](\A j \in OneJob :
            /\ io[j].queries <= io[j].sleeps
            /\ pc[j] \in {"clip_query", "ls_query"} =>
                  io[j].sleeps = io[j].queries + 1
            /\ pc[j] \in {"clip_sleep", "ls_sleep", "l239", "l450"} =>
                  io[j].sleeps = io[j].queries)
    /\ [][\A j \in OneJob :
            /\ io'[j].queries = io[j].queries + 1 =>
                  /\ io[j].sleeps = io[j].queries + 1
                  /\ io'[j].sleeps = io[j].sleeps
            /\ (pc[j] \in {"clip_submit", "ls_submit"} /\ pc'[j] # pc[j]) =>
                  pc'[j] \in {"clip_sleep", "ls_sleep", "l306"}]_vars

C24_Witness ==
    /\ pc["job-1"] = "clip_query"
    /\ io["job-1"].tasks = <<"success", "open">>
    /\ io["job-1"].queries = 1
    /\ io["job-1"].sleeps = 2

\* C25: when the latest status response reports success (clip: complete or
\* completed; lip-sync: COMPLETED or COMPLETE in any letter case) but has a
\* value under none of the result fields, the loop has not ended in
\* success: the task is still open, no reference is held, and the poller
\* is before its next wait, or after the loop when that was the last
\* attempt, where the only step is the timeout.  A task is recorded as
\* success, and its result fetched, only with a non-empty reference.
C25_SuccessWithoutReferenceGoesOn ==
    /\ [](\A j \in OneJob :
            /\ (io[j].last # None /\ ~FailedPoll(io[j].last[1])) =>
                  LET r == io[j].last[1]
                  IN /\ (io[j].ls_tasks = <<>>
                           /\ r.status \in {s_complete, s_completed}
                           /\ ~HasValue(r.video_url)
                           /\ ~HasValue(r.output_url)) =>
                           /\ pc[j] = IF loc[j].attempt < max_attempts_clip
                                      THEN "clip_sleep" ELSE "l239"
                           /\ ~Truthy(loc[j].video_url)
                           /\ Last(io[j].tasks) = "open"
                           /\ loc[j].exc = None
                     /\ (io[j].ls_tasks # <<>>
                           /\ Upper(r.status) \in {S_COMPLETED, S_COMPLETE}
                           /\ ~HasValue(r.output_url)
                           /\ ~HasValue(r.outputUrl)
                           /\ ~HasValue(r.video_url)) =>
                           /\ pc[j] = IF loc[j].attempt < max_attempts_lipsync
                                      THEN "ls_sleep" ELSE "l450"
                           /\ ~Truthy(loc[j].synced_video_url)
                           /\ Last(io[j].ls_tasks) = "open"
                           /\ loc[j].exc = None
            /\ (pc[j] = "l239" /\ Last(io[j].tasks) = "success") =>
                  Truthy(loc[j].video_url)
            /\ pc[j] = "clip_trim" => Truthy(loc[j].video_url)
            /\ (pc[j] = "l450" /\ Last(io[j].ls_tasks) = "success") =>
                  Truthy(loc[j].synced_video_url))
    /\ [][\A j \in OneJob :
            /\ (pc[j] = "l239" /\ ~Truthy(loc[j].video_url) /\ pc'[j] # pc[j]) =>
                  pc'[j] = "l306" /\ Last(io'[j].tasks) = "timeout"
            /\ (pc[j] = "l450" /\ ~Truthy(loc[j].synced_video_url)
                  /\ pc'[j] # pc[j]) =>
                  pc'[j] = "l306" /\ Last(io'[j].ls_tasks) = "timeout"]_vars

C25_Witness ==
    /\ pc["job-1"] = "l239"
    /\ io["job-1"].queries = max_attempts_clip
    /\ io["job-1"].last # None
    /\ io["job-1"].last[1].code = 200
    /\ io["job-1"].last[1].status = s_completed
    /\ io["job-1"].last[1].video_url = Some("")
    /\ io["job-1"].last[1].output_url = None
    /\ Last(io["job-1"].tasks) = "open"

\* C26: the clip poller compares status tokens as sent: when the latest
\* clip status response carries FAILED, ERROR, COMPLETED or COMPLETE in
\* upper case, whatever else it carries, the task is still open, nothing was
\* raised, no reference is held, and the poller goes on to its next wait, or
\* to the timeout test when that was the last attempt.  The lip-sync poller
\* upper-cases first: a lower-case completed with a reference ends its loop.
C26_ClipStatusCaseSensitive ==
    \A j \in OneJob :
       (io[j].last # None /\ ~FailedPoll(io[j].last[1])) =>
          LET r == io[j].last[1]
          IN /\ (io[j].ls_tasks = <<>>
                   /\ r.status \in {S_FAILED, S_ERROR, S_COMPLETED, S_COMPLETE}) =>
                   /\ pc[j] = IF loc[j].attempt < max_attempts_clip
                              THEN "clip_sleep" ELSE "l239"
                   /\ Last(io[j].tasks) = "open"
                   /\ loc[j].exc = None
                   /\ ~Truthy(loc[j].video_url)
             /\ (io[j].ls_tasks # <<>>
                   /\ r.status \in {s_completed, s_complete}
                   /\ HasValue(r.output_url)) =>
                   /\ pc[j] = "l450"
                   /\ Last(io[j].ls_tasks) = "success"

C26_Witness ==
    /\ pc["job-1"] = "l239"
    /\ io["job-1"].queries = max_attempts_clip
    /\ io["job-1"].last # None
    /\ io["job-1"].last[1].code = 200
    /\ io["job-1"].last[1].status = S_FAILED
    /\ Last(io["job-1"].tasks) = "open"
    /\ loc["job-1"].exc = None

\* C27: in the lip-sync poller, when the latest status response reports
\* COMPLETED or COMPLETE and one of its result fields has a value, the loop
\* has ended and the reference kept is the value of output_url if it has
\* one, else that of outputUrl if it has one, else that of video_url; with
\* both output_url and video_url present it is the output_url value.
C27_LipsyncResultReference ==
    \A j \in OneJob :
       (io[j].ls_tasks # <<>> /\ io[j].last # None
           /\ ~FailedPoll(io[j].last[1])
           /\ Upper(io[j].last[1].status) \in {S_COMPLETED, S_COMPLETE}) =>
          LET r == io[j].last[1]
              ref == IF HasValue(r.output_url) THEN r.output_url
                     ELSE IF HasValue(r.outputUrl) THEN r.outputUrl
                     ELSE r.video_url
          IN HasValue(ref) =>
                /\ pc[j] = "l450"
                /\ loc[j].synced_video_url = ref
                /\ Last(io[j].ls_tasks) = "success"
                /\ (HasValue(r.output_url) /\ HasValue(r.video_url)) =>
                      loc[j].synced_video_url = r.output_url

C27_Witness ==
    /\ pc["job-1"] = "l450"
    /\ io["job-1"].last # None
    /\ io["job-1"].last[1].status = S_COMPLETED
    /\ io["job-1"].last[1].output_url = Some("output-url")
    /\ io["job-1"].last[1].outputUrl = None
    /\ io["job-1"].last[1].video_url = Some("video-url")
    /\ loc["job-1"].synced_video_url = Some("output-url")

----------------------------------------------------------------------------
\* C28: the lip-sync stage looks for the assembled video and for the audio
\* file before anything else; while either is missing the stage has made no
\* submission, no status query, no wait and no download, and it ends with
\* the missing-input error of the first file found absent (video first).
C28_MissingInputFailsFirst ==
    \A j \in OneJob :
        LET video == loc[j].assembled_video[1]
            audio == args[j].audio_data.audio_path
        IN (~Exists(video) \/ ~Exists(audio)) =>
              /\ pc[j] \in {"ls_check", "l306"}
              /\ io[j] = IoInit
              /\ FinalFile \notin files
              /\ pc[j] = "l306" =>
                    loc[j].exc =
                       IF ~Exists(video)
                       THEN Msg("Video file not found: ", video)
                       ELSE Msg("Audio file not found: ", audio)

C28_Witness ==
    /\ pc["job-1"] = "l306"
    /\ Exists(loc["job-1"].assembled_video[1])
    /\ ~Exists(args["job-1"].audio_data.audio_path)
    /\ loc["job-1"].exc = Msg("Audio file not found: ", AudioFile)
    /\ io["job-1"].ls_submits = 0

----------------------------------------------------------------------------
\* C29: a lip-sync submission that fails in transport, is answered with a
\* code other than 200 and 201, or is answered without a job id makes the
\* stage fail at once: no task is recorded, no wait and no status query
\* follows, ever.  Waiting and polling happen only with exactly one accepted
\* submission, whose response had code 200 or 201 and a job id.
SubmissionSucceeded(r) ==
    r.kind = "http" /\ r.code \in {200, 201} /\ r.id \notin {None, Some("")}

C29_NoPollWithoutJobId ==
    /\ [](\A j \in OneJob :
            /\ pc[j] \in {"ls_sleep", "ls_query", "l450"} =>
                  /\ io[j].ls_submits = 1
                  /\ Len(io[j].ls_tasks) = 1
            /\ io[j].ls_reply # None =>
                  IF SubmissionSucceeded(io[j].ls_reply[1])
                  THEN /\ pc[j] = "ls_sleep"
                       /\ io[j].ls_tasks = <<"open">>
                       /\ io[j].queries = 0
                       /\ io[j].sleeps = 0
                  ELSE /\ pc[j] \in {"l306", "l307", "done"}
                       /\ io[j].ls_tasks = <<>>
                       /\ io[j].queries = 0
                       /\ io[j].sleeps = 0
                       /\ FinalFile \notin files
                       /\ loc[j].exc[1] \in {"Failed to submit lipsync job: ",
                                            "Lipsync submission failed: ",
                                            "No job ID returned: "})
    /\ [][\A j \in OneJob :
            (pc[j] = "ls_submit" /\ pc'[j] # pc[j]) =>
               /\ io'[j].ls_submits = io[j].ls_submits + 1
               /\ io'[j].ls_reply # None
               /\ pc'[j] \in {"ls_sleep", "l306"}
               /\ pc'[j] = "ls_sleep" <=>
                     SubmissionSucceeded(io'[j].ls_reply[1])]_vars

C29_Witness ==
    /\ pc["job-1"] = "done"
    /\ jobs["job-1"].status = "failed"
    /\ jobs["job-1"].error = Msg("No job ID returned: ", Some(""))
    /\ io["job-1"].ls_reply = Some([kind |-> "http", code |-> 201, id |-> Some("")])
    /\ io["job-1"].ls_submits = 1
    /\ io["job-1"].ls_tasks = <<>>
    /\ io["job-1"].queries = 0

----------------------------------------------------------------------------
\* C30: failed is entered only from a non-terminal status: no step takes a
\* job whose status is completed to status failed.
C30_CompletedNeverFails ==
    [][\A j \in DOMAIN jobs :
          jobs[j].status = "completed" => jobs'[j].status # "failed"]_vars

----------------------------------------------------------------------------
\* C31: a job that has completed (status completed, worker returned) has a
\* result holding the path of the lip-synced video the lip-sync tool wrote,
\* the duration of the submitted audio data, and clips_generated equal to
\* the submitted required_clips, which is also the number of clip
\* generations submitted and the number of clip tasks that succeeded; a
\* result is stored for no other job.
C31_ResultOfCompletedJob ==
    \A j \in DOMAIN jobs :
       /\ (pc[j] = "done" /\ jobs[j].status = "completed") =>
             /\ jobs[j].result # None
             /\ jobs[j].result[1].final_video_path = FinalFile
             /\ Exists(jobs[j].result[1].final_video_path)
             /\ Some(jobs[j].result[1].duration) = args[j].audio_data.duration
             /\ jobs[j].result[1].clips_generated =
                   args[j].audio_data.required_clips
             /\ jobs[j].result[1].clips_generated = Len(io[j].submits)
             /\ jobs[j].result[1].clips_generated =
                   CountOf(io[j].tasks, "success")
       /\ jobs[j].result # None =>
             pc[j] = "done" /\ jobs[j].status = "completed"

C31_Witness ==
    /\ "job-1" \in DOMAIN jobs
    /\ pc["job-1"] = "done"
    /\ jobs["job-1"].status = "completed"
    /\ jobs["job-1"].result =
          Some([final_video_path |-> FinalFile, duration |-> 224,
                clips_generated |-> 2])
    /\ Len(io["job-1"].submits) = 2

----------------------------------------------------------------------------
\* C32: the except clause writes status and error and nothing else: each of
\* its steps leaves job_id, progress and result as they were, a failed job
\* has no result however many clips it produced, and once the worker has
\* returned a failed job carries its exception as error.
C32_FailureHandlerFrame ==
    /\ [](\A j \in DOMAIN jobs :
            /\ jobs[j].status = "failed" =>
                  /\ jobs[j].result = None
                  /\ pc[j] \in {"l307", "done"}
            /\ (pc[j] = "done" /\ jobs[j].status = "failed") =>
                  jobs[j].error = loc[j].exc /\ jobs[j].error # None)
    /\ [][\A j \in DOMAIN jobs :
            pc[j] \in {"l306", "l307"} =>
               /\ jobs'[j].job_id = jobs[j].job_id
               /\ jobs'[j].progress = jobs[j].progress
               /\ jobs'[j].result = jobs[j].result
               /\ pc[j] = "l306" => jobs'[j].error = jobs[j].error
               /\ pc[j] = "l307" => jobs'[j].status = jobs[j].status]_vars

C32_Witness ==
    /\ "job-1" \in DOMAIN jobs
    /\ pc["job-1"] = "done"
    /\ jobs["job-1"].status = "failed"
    /\ jobs["job-1"].error = ClipTimeoutMsg(3)
    /\ Len(loc["job-1"].clip_paths) = 2
    /\ jobs["job-1"].progress = <<"Generated clip ", 2, "/", 3>>
    /\ jobs["job-1"].result = None

----------------------------------------------------------------------------
\* C33: when every external call returns, every started job eventually has
\* its worker returned with status completed or failed; while it runs each
\* polling loop has made at most max_attempts iterations and the clip loop
\* at most required_clips, and the worker never goes back to a stage it has
\* left, so no job stays in generating_videos, assembling or lipsyncing.
StageOf(label) ==
    CASE label \in {"idle"} -> 0
      [] label \in {"l190", "l191", "l203", "clip_submit", "clip_sleep",
                    "clip_query", "l239", "clip_trim", "l236"} -> 1
      [] label \in {"l241", "l242", "asm_check", "asm_concat", "asm_mux"} -> 2
      [] label \in {"l268", "l269", "ls_check", "ls_submit", "ls_sleep",
                    "ls_query", "l450"} -> 3
      [] label \in {"l296", "l297", "l298"} -> 4
      [] label \in {"l306", "l307"} -> 5
      [] label \in {"done"} -> 6

C33_EveryJobEnds ==
    /\ \A j \in OneJob :
          (pc[j] # "idle") ~>
             (pc[j] = "done" /\ jobs[j].status \in {"completed", "failed"})
    /\ [](\A j \in OneJob :
            /\ loc[j].attempt <= max_attempts_clip
            /\ StageOf(pc[j]) = 3 => loc[j].attempt <= max_attempts_lipsync
            /\ loc[j].i <= loc[j].required_clips
            /\ pc[j] = "done" => jobs[j].status \in {"completed", "failed"})
    /\ [][\A j \in OneJob : StageOf(pc'[j]) >= StageOf(pc[j])]_vars

C33_Witness ==
    /\ pc["job-1"] = "done"
    /\ jobs["job-1"].status = "failed"
    /\ jobs["job-1"].error = LipsyncTimeoutMsg
    /\ Len(io["job-1"].submits) = 3

----------------------------------------------------------------------------
\* C34: with required_clips = 1 (and a script of two or more segments) the
\* only clip submitted is clip 1 with the prompt of the first segment, never
\* that of the last; with required_clips = 0 the loop test sends the worker
\* straight on to the assembly stage, no clip is ever submitted, nothing is
\* raised before the assembly tool has been handed the empty clip list.
C34_ClipCountEdgeCases ==
    /\ [](\A j \in DOMAIN jobs :
            LET segs == args[j].script_data.segments
                n == args[j].audio_data.required_clips
            IN /\ (n = 1 /\ Len(segs) >= 2) =>
                     /\ Len(io[j].submits) <= 1
                     /\ \A k \in DOMAIN io[j].submits :
                           /\ io[j].submits[k] = <<1, segs[1].prompt>>
                           /\ io[j].submits[k][2] # segs[Len(segs)].prompt
               /\ n = 0 =>
                     /\ io[j].submits = <<>>
                     /\ io[j].tasks = <<>>
                     /\ loc[j].clip_paths = <<>>
                     /\ io[j].asm \in {<<>>, << <<>> >>}
                     /\ loc[j].exc # None => io[j].asm = << <<>> >>
                     /\ jobs[j].status \in {"lipsyncing", "completed", "failed"} =>
                           io[j].asm = << <<>> >>)
    /\ [][\A j \in DOMAIN jobs :
            (pc[j] = "l203" /\ args[j].audio_data.required_clips = 0
                /\ pc'[j] # pc[j]) => pc'[j] = "l241"]_vars

C34_Witness ==
    /\ "job-1" \in DOMAIN jobs
    /\ args["job-1"].audio_data.required_clips = 0
    /\ jobs["job-1"].status = "assembling"
    /\ pc["job-1"] = "asm_concat"
    /\ io["job-1"].asm = << <<>> >>
    /\ io["job-1"].submits = <<>>
    /\ loc["job-1"].exc = None

----------------------------------------------------------------------------
(* Properties of the UGC chat workflow (server_with_langsmith.py,
   ugc_orchestrator_agent.py) *)

\* the request of the latest chat reply lacks one of the two images
LacksImage(request) ==
    ~(TruthyName(request.person_image_path)
         /\ TruthyName(request.product_image_path))

\* C35: the reply to a chat request that lacks the person image or the
\* product image comes without any call of the orchestrator, carries the
\* prompt to upload both images, and lists no generated images, whatever
\* the requests before it did.
C35_NoImagesNoGeneration ==
    (resp # None /\ resp.route \in {"chat", "upload"}
        /\ LacksImage(resp.request)) =>
       /\ resp.work = NoCall
       /\ resp.code = 200
       /\ resp.content.assistant_message = UploadPrompt
       /\ resp.content.generated_images = None

UserMessage(request) == [role |-> "user", message |-> request.message]

\* what a chat request does to the histories: the user's message is appended
\* to the history of the reply's conversation, followed by the assistant's
\* message exactly when the request succeeds, and no other history changes
HistoryStep ==
    LET cid == resp'.conversation_id
        before == IF cid \in DOMAIN conversations
                  THEN conversations[cid] ELSE <<>>
    IN /\ DOMAIN conversations' = DOMAIN conversations \cup {cid}
       /\ resp'.code \in {200, 500}
       /\ resp'.code = 200 =>
             conversations'[cid] =
                before \o <<UserMessage(resp'.request),
                            [role |-> "assistant",
                             message |-> resp'.content.assistant_message]>>
       /\ resp'.code = 500 =>
             conversations'[cid] = before \o <<UserMessage(resp'.request)>>
       /\ \A c \in DOMAIN conversations \ {cid} :
             conversations'[c] = conversations[c]

\* the id of the reply's conversation was drawn by this request
FreshId ==
    /\ uuids' > uuids
    /\ resp'.conversation_id = Uuid(uuids')
    /\ resp'.conversation_id \notin DOMAIN conversations

\* C36 as stated: every chat request appends the user's message to the
\* history of its conversation, which is created under a fresh id when the
\* request gives no known conversation id; one assistant message follows on
\* success, none on failure; no other history changes.
C36_HistoryPerRequest ==
    [][resp'.route \in {"chat", "upload"} =>
          /\ HistoryStep
          /\ IF resp'.request.conversation_id # None
                /\ resp'.request.conversation_id[1] \in DOMAIN conversations
             THEN resp'.conversation_id = resp'.request.conversation_id[1]
             ELSE FreshId]_vars

\* C36 amended: as C36, but the history is created under a fresh id only
\* when the request gives no conversation id or an empty one; when it gives
\* an id the server does not know, the history is created under that id.
C36_HistoryPerRequestAmended ==
    [][resp'.route \in {"chat", "upload"} =>
          /\ HistoryStep
          /\ IF TruthyName(resp'.request.conversation_id)
             THEN /\ resp'.conversation_id = resp'.request.conversation_id[1]
                  /\ uuids' - uuids = Cardinality(resp'.saved)
             ELSE FreshId]_vars

C36_Witness ==
    /\ resp # None
    /\ resp.route = "chat"
    /\ resp.code = 200
    /\ resp.request.conversation_id = Some(ClientId)
    /\ DOMAIN conversations = {Uuid(1), ClientId}
    /\ Len(conversations[Uuid(1)]) = 1
    /\ conversations[ClientId] =
          <<UserMessage(resp.request),
            [role |-> "assistant", message |-> UploadPrompt]>>

\* C37: once an upload request has finished, with a reply of chat_ugc or
\* with its error, none of the temporary image files saved for it exists.
C37_TempFilesRemoved ==
    (resp # None /\ resp.route = "upload") =>
       \A path \in resp.saved : ~Exists(path)

\* C38: deleting a conversation succeeds for every id: the call returns
\* status deleted, and afterwards neither the history map nor the
\* generated-images map has an entry for the id.
C38_DeleteAlwaysSucceeds ==
    /\ []((resp # None /\ resp.route = "delete-conversation") =>
             /\ resp.code = 200
             /\ resp.content = [status |-> "deleted",
                                conversation_id |-> resp.conversation_id]
             /\ resp.conversation_id \notin DOMAIN conversations
             /\ resp.conversation_id \notin DOMAIN generated_images)
    /\ [][(resp # None /\ resp.route = "delete-conversation"
              /\ resp'.route = "get-conversation"
              /\ resp'.conversation_id = resp.conversation_id) =>
             resp'.code = 404]_vars

\* C39: when chat_ugc hands both image paths to the orchestrator function
\* and the person image is not on disk, or else the product image is not,
\* the function returns the not-found message of that image (person first)
\* without creating the agent or running the crew; the chat reply is a
\* success whose assistant message, stored last in the history, is that
\* message.  With both images on disk the agent is created and the crew run.
C39_MissingImageIsAReply ==
    [][(resp'.route = "chat" /\ ~LacksImage(resp'.request)) =>
          LET person == resp'.request.person_image_path[1]
              product == resp'.request.product_image_path[1]
              cid == resp'.conversation_id
              missing ==
                 IF ~Exists(person)
                 THEN Text(<<"Person image not found: ">>, person)
                 ELSE Text(<<"Product image not found: ">>, product)
          IN IF ~Exists(person) \/ ~Exists(product)
             THEN /\ resp'.work = [calls |-> 1, agents |-> 0, kickoffs |-> 0]
                  /\ resp'.code = 200
                  /\ resp'.content.assistant_message = missing
                  /\ Last(conversations'[cid]) =
                        [role |-> "assistant", message |-> missing]
                  /\ \A i \in 1..NumVariants :
                        OriginalFile(i) \in files' => OriginalFile(i) \in files
             ELSE resp'.work = [calls |-> 1, agents |-> 1, kickoffs |-> 1]]_vars

C39_Witness ==
    /\ resp # None
    /\ resp.route = "chat"
    /\ resp.code = 200
    /\ resp.request.person_image_path = Some(PersonFile)
    /\ resp.request.product_image_path = Some(ProductFile)
    /\ Exists(PersonFile)
    /\ ~Exists(ProductFile)
    /\ resp.work.agents = 0
    /\ resp.content.assistant_message =
          Text(<<"Product image not found: ">>, ProductFile)
    /\ Last(conversations[resp.conversation_id]).role = "assistant"


====
